---------------------------- MODULE Spec2Model ----------------------------
(***************************************************************************)
(* pycic: compound-interest calculators.                                   *)
(*                                                                         *)
(*   pycic/calculator.py  CompoundInterest, the period-index engine        *)
(*   pycic/core.py        CompoundInterest, the calendar-date engine       *)
(*   pycic/utils.py       FREQ_MAP, LABEL_MAP                              *)
(*                                                                         *)
(* Numbers.  Python floats are modelled by exact fixed-point numbers:      *)
(*   money      an integer count of 1/Cent of a cent                       *)
(*   rates      an integer count of 1/RateDen (RateDen = 100 %)            *)
(*   years      an integer count of 1/YearDen of a year                    *)
(* The inputs are drawn from grids on which every product the engines      *)
(* form is exact (Representable), so the model computes what real          *)
(* arithmetic computes.  round(x, 2) rounds to whole cents.  A value that  *)
(* lies exactly half-way between two cents has no exact binary float; the  *)
(* side it rounds to depends on the last place of the float that holds it. *)
(* Which side that is, is fixed by the float arithmetic but not known to   *)
(* the model: `ulp` holds it, for the balances of each loop and for each   *)
(* interest column, chosen when the object is built, both sides where the  *)
(* run has a half-way value and none where it has not.  The two            *)
(* period-index loops perform the same float operations except for the     *)
(* taxed interest (interest *= 1 - tax_rate against                        *)
(* gross - gross * tax_rate), so their sides are chosen independently only *)
(* when these two can differ in the last place (SameTaxedInterest).  Every *)
(* balance carries the sign `lsb` of the deviation its last interest left  *)
(* and a half-way value rounds to that side; a half-way value that no      *)
(* interest went into rounds half-to-even.                                 *)
(***************************************************************************)
EXTENDS Integers, Sequences, FiniteSets, TLC

VARIABLES
    obj,      \* the constructed object (its attributes), or NoObject
    raised,   \* the exception the last call raised, or "none"
    call,     \* the last public call: its name and arguments
    pc,       \* position of the running call: "idle", "future_value", "breakdown", "timeline"
    loc,      \* the local variables of the running loop
    ret,      \* the value the last call returned
    ulp       \* the side a half-way value takes, per loop and interest column

vars == <<obj, raised, call, pc, loc, ret, ulp>>

(***************************************************************************)
(* Bounds of the model.                                                    *)
(***************************************************************************)
\* runs of the period-index engine are modelled up to this many periods
MaxPeriods == 12
\* runs of the calendar-date engine are modelled up to this many event dates
MaxEvents == 30

(***************************************************************************)
(* Fixed-point scales.                                                     *)
(***************************************************************************)
Cent == 2^16
RateDen == 2^12
YearDen == 2^6

\* the exponent of 2 in n (for 0: more than any amount needs)
RECURSIVE TwoAdic(_)
TwoAdic(n) == IF n = 0 THEN 31 ELSE IF n % 2 = 1 THEN 0 ELSE 1 + TwoAdic(n \div 2)

\* the fractional bits a product with rate r consumes
RateCost(r) == IF r = 0 THEN 0 ELSE TwoAdic(RateDen) - TwoAdic(r)

\* x * r for a money amount x and a rate r; exact when MulExact(x, r)
Mul(x, r) == (x \div RateDen) * r + ((x % RateDen) * r) \div RateDen
MulExact(x, r) == ((x % RateDen) * r) % RateDen = 0

\* acc * (x / RateDen)^n, or -1 when a product is off the rate grid or above cap
RECURSIVE PowFrom(_, _, _, _)
PowFrom(acc, x, n, cap) ==
    IF n = 0 \/ x = RateDen THEN acc
    ELSE IF (acc * x) % RateDen # 0 \/ (acc * x) \div RateDen > cap THEN -1
    ELSE PowFrom((acc * x) \div RateDen, x, n - 1, cap)

\* (x / RateDen)^n * RateDen, or -1 when it is off the rate grid or above cap
ScaledPow(x, n, cap) == PowFrom(RateDen, x, n, cap)

(***************************************************************************)
(* round(x, 2): a money amount to whole cents.  lsb is the sign of the     *)
(* last-place deviation of the float holding x (0: none).                  *)
(***************************************************************************)
IsTie(x) == 2 * (x % Cent) = Cent

round2(x, lsb) ==
    LET q == x \div Cent
        twice == 2 * (x % Cent)
    IN  IF twice < Cent THEN q
        ELSE IF twice > Cent THEN q + 1
        ELSE IF lsb < 0 THEN q
        ELSE IF lsb > 0 THEN q + 1
        ELSE IF q % 2 = 0 THEN q ELSE q + 1

(***************************************************************************)
(* Python strings are sequences of characters, so that str.strip() and     *)
(* str.lower() are computed.                                               *)
(***************************************************************************)
annually == <<"a", "n", "n", "u", "a", "l", "l", "y">>
semiannually == <<"s", "e", "m", "i", "a", "n", "n", "u", "a", "l", "l", "y">>
quarterly == <<"q", "u", "a", "r", "t", "e", "r", "l", "y">>
monthly == <<"m", "o", "n", "t", "h", "l", "y">>
biweekly == <<"b", "i", "w", "e", "e", "k", "l", "y">>
weekly == <<"w", "e", "e", "k", "l", "y">>
daily == <<"d", "a", "i", "l", "y">>
start == <<"s", "t", "a", "r", "t">>
end == <<"e", "n", "d">>

Whitespace == {" ", "\t", "\n"}

UpperToLower ==
    ("A" :> "a") @@ ("E" :> "e") @@ ("N" :> "n") @@ ("D" :> "d") @@
    ("S" :> "s") @@ ("T" :> "t") @@ ("R" :> "r") @@ ("U" :> "u") @@
    ("L" :> "l") @@ ("Y" :> "y") @@ ("M" :> "m") @@ ("O" :> "o") @@
    ("H" :> "h")

\* str.lower()
lower(s) == [i \in 1..Len(s) |->
                IF s[i] \in DOMAIN UpperToLower THEN UpperToLower[s[i]] ELSE s[i]]

\* str.strip()
strip(s) ==
    LET keep == {i \in 1..Len(s) : s[i] \notin Whitespace}
    IN  IF keep = {} THEN <<>>
        ELSE LET lo == CHOOSE i \in keep : \A j \in keep : i <= j
                 hi == CHOOSE i \in keep : \A j \in keep : j <= i
             IN  SubSeq(s, lo, hi)

(***************************************************************************)
(* utils.py                                                                *)
(***************************************************************************)
FREQ_MAP ==
    (annually :> 1) @@ (semiannually :> 2) @@ (quarterly :> 4) @@
    (monthly :> 12) @@ (biweekly :> 26) @@ (weekly :> 52) @@ (daily :> 365)

LABEL_MAP ==
    (annually :> "Year") @@ (semiannually :> "Semester") @@
    (quarterly :> "Quarter") @@ (monthly :> "Month") @@
    (biweekly :> "Biweek") @@ (weekly :> "Week") @@ (daily :> "Day")

\* dict.get(key, default)
FreqGet(key, default) == IF key \in DOMAIN FREQ_MAP THEN FREQ_MAP[key] ELSE default
LabelGet(key, default) == IF key \in DOMAIN LABEL_MAP THEN LABEL_MAP[key] ELSE default

Max(a, b) == IF a >= b THEN a ELSE b

(***************************************************************************)
(* Python values as the constructors and future_value receive them: a      *)
(* number carries its type and its value (already in the scale of the      *)
(* parameter it is passed for), a string its characters.                   *)
(***************************************************************************)
PyNone == [t |-> "NoneType"]
Omitted == [t |-> "omitted"]
PyInt(n) == [t |-> "int", v |-> n]
PyFloat(x) == [t |-> "float", v |-> x]
\* True and False are the numbers 1 and 0
PyBool(n) == [t |-> "bool", v |-> n]
PyStr(s) == [t |-> "str", s |-> s]
PyOther(type) == [t |-> type]

\* isinstance(x, (int, float)): bool is a subclass of int
IsNumber(x) == x.t \in {"int", "float", "bool"}
IsStr(x) == x.t = "str"
IsNone(x) == x.t = "NoneType"

NoObject == [cls |-> "none"]
NoError == [type |-> "none", msg |-> ""]
Error(type, msg) == [type |-> type, msg |-> msg]

(***************************************************************************)
(* calculator.py, CompoundInterest.__init__                                *)
(***************************************************************************)
\* keyword defaults with the contributions at the start
DefaultsAtStart(a) ==
    [a EXCEPT
        !.contribution = IF @ = Omitted THEN PyFloat(0) ELSE @,
        !.contribution_freq = IF @ = Omitted THEN PyNone ELSE @,
        !.contribution_timing = IF @ = Omitted THEN PyStr(start) ELSE @,
        !.tax_rate = IF @ = Omitted THEN PyFloat(0) ELSE @]

\* the keyword defaults of the signature
CalcDefaults(a) ==
    [a EXCEPT
        !.contribution = IF @ = Omitted THEN PyFloat(0) ELSE @,
        !.contribution_freq = IF @ = Omitted THEN PyNone ELSE @,
        !.contribution_timing = IF @ = Omitted THEN PyStr(end) ELSE @,
        !.tax_rate = IF @ = Omitted THEN PyFloat(0) ELSE @]

\* the first check that fails, in the order of the code, or NoError
CalcInitError(a) ==
    LET comp == lower(strip(a.comp_freq.s))
        \* (contribution_freq or comp_freq): None and "" are falsy
        contr == IF IsNone(a.contribution_freq) \/ a.contribution_freq.s = <<>>
                 THEN comp
                 ELSE lower(strip(a.contribution_freq.s))
    IN
    IF ~IsNumber(a.init_value) THEN Error("TypeError", "init_value must be a number")
    ELSE IF a.init_value.v < 0 THEN Error("ValueError", "init_value must be non-negative")
    ELSE IF ~IsNumber(a.interest_rate) THEN Error("TypeError", "interest_rate must be a number")
    ELSE IF a.interest_rate.v < 0 \/ a.interest_rate.v > RateDen
        THEN Error("ValueError", "interest_rate must be between 0 and 1")
    ELSE IF ~IsNumber(a.years) THEN Error("TypeError", "years must be a number")
    ELSE IF a.years.v <= 0 THEN Error("ValueError", "years must be positive")
    ELSE IF a.years.v > 200 * YearDen THEN Error("ValueError", "years must be 200 or less")
    ELSE IF ~IsNumber(a.contribution) THEN Error("TypeError", "contribution must be a number")
    ELSE IF a.contribution.v < 0 THEN Error("ValueError", "contribution must be non-negative")
    ELSE IF ~IsNumber(a.tax_rate) THEN Error("TypeError", "tax_rate must be a number")
    ELSE IF ~(0 <= a.tax_rate.v /\ a.tax_rate.v <= RateDen)
        THEN Error("ValueError", "tax_rate must be between 0 and 1")
    ELSE IF IsNone(a.comp_freq) THEN Error("TypeError", "comp_freq cannot be None")
    ELSE IF ~IsStr(a.comp_freq) THEN Error("TypeError", "comp_freq must be a string")
    ELSE IF comp \notin DOMAIN FREQ_MAP THEN Error("ValueError", "Invalid compounding frequency")
    ELSE IF ~IsNone(a.contribution_freq) /\ ~IsStr(a.contribution_freq)
        THEN Error("TypeError", "contribution_freq must be a string or None")
    ELSE IF contr \notin DOMAIN FREQ_MAP
        THEN Error("ValueError", "Invalid contribution frequency")
    ELSE IF IsNone(a.contribution_timing)
        THEN Error("TypeError", "contribution_timing cannot be None")
    ELSE IF ~IsStr(a.contribution_timing)
        THEN Error("TypeError", "contribution_timing must be a string")
    ELSE IF lower(strip(a.contribution_timing.s)) \notin {start, end}
        THEN Error("ValueError", "contribution_timing must be either 'start' or 'end'")
    ELSE NoError

\* the attributes __init__ assigns when no check fails
CalcObject(a) ==
    LET comp == lower(strip(a.comp_freq.s))
        contr == IF IsNone(a.contribution_freq) \/ a.contribution_freq.s = <<>>
                 THEN comp
                 ELSE lower(strip(a.contribution_freq.s))
    IN  [cls |-> "calculator",
         init_value |-> a.init_value.v,
         interest_rate |-> a.interest_rate.v,
         years |-> a.years.v,
         contribution |-> a.contribution.v,
         comp_freq |-> comp,
         contribution_freq |-> contr,
         contribution_timing |-> lower(strip(a.contribution_timing.s)),
         tax_rate |-> a.tax_rate.v,
         compound_periods |-> FREQ_MAP[comp],
         contrib_periods |-> FREQ_MAP[contr]]

NoCall == [name |-> "none"]
NoLocals == [period |-> 0]
NoReturn == [of |-> "none"]
Return(name, value) == [of |-> name, value |-> value]
NoUlp == [fv |-> 0, bd |-> 0, tl |-> 0, gross |-> 0, tax |-> 0, net |-> 0]

\* the sides a half-way value can take: both when there is one, else none
Sides(tie) == IF tie THEN {-1, 1} ELSE {0}

\* gross - gross * tax_rate is the float gross for tax_rate 0, and
\* gross * tax_rate is the float gross for tax_rate 1
SameAmounts(tax_rate, u) ==
    /\ tax_rate = 0 => u.net = u.gross
    /\ tax_rate = RateDen => u.tax = u.gross

\* interest * (1 - tax_rate) and gross - gross * tax_rate are the same float:
\* for tax_rate 0 or 1, and for a power of 1/2, where 1 - tax_rate and
\* gross * tax_rate are exact and both are the one rounding of the same number
SameTaxedInterest(tax_rate) ==
    tax_rate = 0 \/ tax_rate = RateDen \/ tax_rate = 2^TwoAdic(tax_rate)



(***************************************************************************)
(* calculator.py: what future_value and breakdown compute before the loop  *)
(***************************************************************************)
\* the candidates among which the model looks for (1 + r) ** (1 / n) - 1
RootCandidates(r) == {r} \cup {k * (RateDen \div 8) : k \in 0..8}

HasPeriodRate(r, n) ==
    \E p \in RootCandidates(r) : ScaledPow(RateDen + p, n, 2 * RateDen) = RateDen + r

\* period_rate = (1 + self.interest_rate) ** (1 / compound_periods) - 1
PeriodRate(r, n) ==
    CHOOSE p \in RootCandidates(r) : ScaledPow(RateDen + p, n, 2 * RateDen) = RateDen + r

\* a count of periods that takes a started period for a whole one
StartedPeriods(years, freq) == (years * freq + YearDen - 1) \div YearDen

\* int(self.years * freq)
IntYearsTimes(years, freq) == (years * freq) \div YearDen

\* a schedule counted from period 0
ZeroBasedDays(timing, total_periods, n_contrib) ==
    {(i * total_periods) \div n_contrib : i \in 0..(n_contrib - 1)}

\* the set comprehension over range(n_contrib); no division is evaluated when
\* n_contrib = 0
DepositDays(timing, total_periods, n_contrib) ==
    IF timing = start
    THEN {(i * total_periods) \div n_contrib + 1 : i \in 0..(n_contrib - 1)}
    ELSE {((i + 1) * total_periods) \div n_contrib : i \in 0..(n_contrib - 1)}

\* lines 185-206 of future_value
FutureValueLocals(o, inflation) ==
    LET compound_periods == FreqGet(o.comp_freq, 1)
        contrib_periods == FreqGet(o.contribution_freq, 1)
        freq == Max(compound_periods, contrib_periods)
        total_periods == IntYearsTimes(o.years, freq)
        n_contrib == IntYearsTimes(o.years, contrib_periods)
    IN  [inflation |-> inflation,
         total_periods |-> total_periods,
         period_rate |-> PeriodRate(o.interest_rate, compound_periods),
         balance |-> o.init_value,
         lsb |-> 0,
         compound_interval |-> freq \div compound_periods,
         n_contrib |-> n_contrib,
         deposit_days |-> DepositDays(o.contribution_timing, total_periods, n_contrib),
         contrib_count |-> 0,
         period |-> 1,
         interest |-> 0]

(***************************************************************************)
(* The configurations the fixed-point model computes exactly: the period   *)
(* rate is on the rate grid, and the amounts keep enough binary places for *)
(* every product of the run.                                               *)
(***************************************************************************)
Min(a, b) == IF a <= b THEN a ELSE b

TotalPeriods(o) == IntYearsTimes(o.years, Max(o.compound_periods, o.contrib_periods))

Compoundings(o) ==
    TotalPeriods(o) \div (Max(o.compound_periods, o.contrib_periods) \div o.compound_periods)

StepCost(o) ==
    RateCost(PeriodRate(o.interest_rate, o.compound_periods))
    + (IF o.tax_rate < RateDen THEN RateCost(o.tax_rate) ELSE 0)

SpareBits(o) ==
    Min(TwoAdic(o.init_value), TwoAdic(o.contribution)) - Compoundings(o) * StepCost(o)

Representable(o) ==
    /\ HasPeriodRate(o.interest_rate, o.compound_periods)
    /\ TotalPeriods(o) <= MaxPeriods
    /\ SpareBits(o) >= 0

\* a deposit made before the interest at either timing
DepositAtAnyTiming(o, l) ==
    /\ l.period \in l.deposit_days
    /\ l.contrib_count < l.n_contrib

\* a Start-timing deposit of this period (lines 209-212, 274-279)
StartDeposit(o, l) ==
    /\ o.contribution_timing = start
    /\ l.period \in l.deposit_days
    /\ l.contrib_count < l.n_contrib

\* an End-timing deposit of this period (lines 220-223, 290-294)
EndDeposit(o, l, count) ==
    /\ o.contribution_timing = end
    /\ l.period \in l.deposit_days
    /\ count < l.n_contrib

\* if period % compound_interval == 0
Compounds(l) == l.period % l.compound_interval = 0

\* an interest that is not taxed
UntaxedInterest(o, interest) == interest

\* the taxed interest of the fast path: interest *= 1 - self.tax_rate
FastNet(o, interest) ==
    IF o.tax_rate > 0 THEN Mul(interest, RateDen - o.tax_rate) ELSE interest

\* one iteration of the loop of future_value (lines 208-223); dev is the
\* last-place deviation an interest leaves
FutureValueBody(o, l, dev) ==
    LET dep1 == StartDeposit(o, l)
        b1 == IF dep1 THEN l.balance + o.contribution ELSE l.balance
        c1 == IF dep1 THEN l.contrib_count + 1 ELSE l.contrib_count
        interest == IF Compounds(l) THEN FastNet(o, Mul(b1, l.period_rate))
                    ELSE l.interest
        b2 == IF Compounds(l) THEN b1 + interest ELSE b1
        credited == Compounds(l) /\ interest # 0
        dep2 == EndDeposit(o, l, c1)
        b3 == IF dep2 THEN b2 + o.contribution ELSE b2
        c3 == IF dep2 THEN c1 + 1 ELSE c1
    IN  [l EXCEPT !.balance = b3,
                  !.lsb = IF credited THEN dev ELSE l.lsb,
                  !.contrib_count = c3,
                  !.interest = interest,
                  !.period = l.period + 1]

(***************************************************************************)
(* calculator.py, future_value                                             *)
(***************************************************************************)
\* a check that takes a boolean for a number
InflationRangeOnly(inflation) ==
    IF ~IsNumber(inflation)
    THEN Error("ValueError", "Inflation must be a numeric type (float or int).")
    ELSE IF ~(0 <= inflation.v /\ inflation.v <= RateDen)
    THEN Error("ValueError", "Inflation must be a value between 0 and 1.")
    ELSE NoError

\* lines 180-183: the first check of the inflation argument that fails
InflationError(inflation) ==
    IF ~IsNumber(inflation) \/ inflation.t = "bool"
    THEN Error("ValueError", "Inflation must be a numeric type (float or int).")
    ELSE IF ~(0 <= inflation.v /\ inflation.v <= RateDen)
    THEN Error("ValueError", "Inflation must be a value between 0 and 1.")
    ELSE NoError

\* balance / ((1 + inflation) ** self.years), for a whole number of years
Deflate(balance, inflation, years) ==
    LET f == ScaledPow(RateDen + inflation, years \div YearDen, 64 * RateDen)
    IN  (balance \div f) * RateDen + ((balance % f) * RateDen) \div f

\* the model computes the inflation adjustment when it is exact
DeflateExact(o, inflation) ==
    \/ inflation = 0
    \/ /\ o.years % YearDen = 0
       /\ inflation = RateDen
       /\ SpareBits(o) >= o.years \div YearDen

\* future_value(inflation), up to the loop
FutureValueCall(inflation) ==
    /\ obj.cls = "calculator"
    /\ pc = "idle"
    /\ call' = [name |-> "future_value", args |-> inflation]
    /\ raised' = InflationError(inflation)
    /\ IF raised' = NoError
       THEN /\ Representable(obj)
            /\ DeflateExact(obj, inflation.v)
            /\ pc' = "future_value"
            /\ loc' = FutureValueLocals(obj, inflation.v)
       ELSE UNCHANGED <<pc, loc>>
    /\ ret' = NoReturn
    /\ UNCHANGED <<obj, ulp>>

\* a loop that keeps its balance in the object
StepOnTheObject ==
    /\ pc = "future_value"
    /\ loc.period <= loc.total_periods
    /\ loc' = FutureValueBody(obj, loc, ulp.fv)
    /\ obj' = [obj EXCEPT !.init_value = loc'.balance]
    /\ UNCHANGED <<raised, call, pc, ret, ulp>>

\* for period in range(1, total_periods + 1): one iteration
FutureValueStep ==
    /\ pc = "future_value"
    /\ loc.period <= loc.total_periods
    /\ loc' = FutureValueBody(obj, loc, ulp.fv)
    /\ UNCHANGED <<obj, raised, call, pc, ret, ulp>>

\* lines 225-229: the inflation adjustment and the rounded result
FutureValueResult(o, l) ==
    LET balance == IF l.inflation > 0 THEN Deflate(l.balance, l.inflation, o.years)
                   ELSE l.balance
    IN  round2(balance, l.lsb)

FutureValueReturn ==
    /\ pc = "future_value"
    /\ loc.period > loc.total_periods
    /\ ret' = Return("future_value", FutureValueResult(obj, loc))
    /\ pc' = "idle"
    /\ loc' = NoLocals
    /\ UNCHANGED <<obj, raised, call, ulp>>


(***************************************************************************)
(* calculator.py, breakdown                                                *)
(***************************************************************************)
\* lines 238-265 of breakdown
BreakdownLocals(o) ==
    LET compound_periods == FreqGet(o.comp_freq, 1)
        contrib_periods == FreqGet(o.contribution_freq, 1)
        freq == Max(compound_periods, contrib_periods)
        total_periods == IntYearsTimes(o.years, freq)
        n_contrib == IntYearsTimes(o.years, contrib_periods)
    IN  [total_periods |-> total_periods,
         period_rate |-> PeriodRate(o.interest_rate, compound_periods),
         label_base |-> IF contrib_periods >= compound_periods
                        THEN LabelGet(o.contribution_freq, "Period")
                        ELSE LabelGet(o.comp_freq, "Period"),
         data |-> <<>>,
         balance |-> o.init_value,
         lsb |-> 0,
         compound_interval |-> freq \div compound_periods,
         n_contrib |-> n_contrib,
         deposit_days |-> DepositDays(o.contribution_timing, total_periods, n_contrib),
         contrib_count |-> 0,
         period |-> 1,
         starting_balance |-> 0,
         starting_lsb |-> 0,
         contribution_val |-> 0,
         gross_interest |-> 0,
         net_interest |-> 0,
         tax_paid |-> 0]

\* a tax that takes the whole interest at any rate
TaxEverything(o, gross) == gross

\* tax_paid = gross_interest * self.tax_rate
TaxPaid(o, gross) == IF o.tax_rate > 0 THEN Mul(gross, o.tax_rate) ELSE 0

\* an interest that is charged
ChargedInterest(gross, tax) == tax - gross

\* net_interest = gross_interest - tax_paid
NetInterest(gross, tax) == gross - tax

\* a balance the interest is not added to
AddNothing(balance, net) == balance

\* balance += net_interest
AddInterest(balance, net) == balance + net

\* f"contribution_at_{self.contribution_timing}"
ContributionKey(timing) ==
    IF timing = start THEN "contribution_at_start" ELSE "contribution_at_end"

\* a row whose starting balance is the balance before the deposit
RowBeforeDeposit(o, l, u) ==
    (ContributionKey(o.contribution_timing) :> round2(l.contribution_val, 0)) @@
    [label |-> l.label_base,
     period |-> l.period,
     starting_balance |->
        round2(l.starting_balance
               - (IF o.contribution_timing = start THEN l.contribution_val ELSE 0),
               l.starting_lsb),
     gross_interest |-> round2(l.gross_interest, u.gross),
     net_interest |-> round2(l.net_interest, u.net),
     tax_paid |-> round2(l.tax_paid, u.tax),
     ending_balance |-> round2(l.balance, l.lsb)]

\* the dict appended to data (lines 296-309), its amounts in whole cents; u
\* holds the sides the half-way amounts take
Row(o, l, u) ==
    (ContributionKey(o.contribution_timing) :> round2(l.contribution_val, 0)) @@
    [label |-> l.label_base,
     period |-> l.period,
     starting_balance |-> round2(l.starting_balance, l.starting_lsb),
     gross_interest |-> round2(l.gross_interest, u.gross),
     net_interest |-> round2(l.net_interest, u.net),
     tax_paid |-> round2(l.tax_paid, u.tax),
     ending_balance |-> round2(l.balance, l.lsb)]

\* one iteration of the loop of breakdown (lines 267-309)
BreakdownBody(o, l, u) ==
    LET dep1 == StartDeposit(o, l)
        b1 == IF dep1 THEN l.balance + o.contribution ELSE l.balance
        c1 == IF dep1 THEN l.contrib_count + 1 ELSE l.contrib_count
        gross == IF Compounds(l) THEN Mul(b1, l.period_rate) ELSE 0
        tax == IF Compounds(l) THEN TaxPaid(o, gross) ELSE 0
        net == NetInterest(gross, tax)
        b2 == AddInterest(b1, net)
        dep2 == EndDeposit(o, l, c1)
        b3 == IF dep2 THEN b2 + o.contribution ELSE b2
        c3 == IF dep2 THEN c1 + 1 ELSE c1
        m == [l EXCEPT !.balance = b3,
                       !.lsb = IF net # 0 THEN u.bd ELSE l.lsb,
                       !.contrib_count = c3,
                       !.starting_balance = b1,
                       !.starting_lsb = l.lsb,
                       !.contribution_val = IF dep1 \/ dep2 THEN o.contribution ELSE 0,
                       !.gross_interest = gross,
                       !.net_interest = net,
                       !.tax_paid = tax]
    IN  [m EXCEPT !.data = Append(l.data, Row(o, m, u)),
                  !.period = l.period + 1]

\* the loop of breakdown, from the locals l to its end
RECURSIVE BreakdownLoop(_, _, _)
BreakdownLoop(o, l, u) ==
    IF l.period > l.total_periods THEN l
    ELSE BreakdownLoop(o, BreakdownBody(o, l, u), u)

\* the rows of the frame self.breakdown() returns
BreakdownData(o, u) == BreakdownLoop(o, BreakdownLocals(o), u).data

\* the unrounded amounts of the loop of breakdown that lie half-way between
\* two cents, from the locals l on
RECURSIVE HalfWay(_, _, _)
HalfWay(o, l, seen) ==
    IF l.period > l.total_periods THEN seen
    ELSE LET m == BreakdownBody(o, l, NoUlp)
         IN  HalfWay(o, m, seen \cup {f \in {"starting_balance", "gross_interest",
                                               "tax_paid", "net_interest", "balance"} :
                                        IsTie(m[f])})

\* the final balance after 100 % inflation over a whole number of years
Halved(o, final) ==
    IF o.years >= YearDen /\ o.years % YearDen = 0
    THEN Deflate(final, RateDen, o.years) ELSE final

\* the sides the half-way amounts can take in the two loops of object o, whose
\* unrounded amounts of the columns `ties` lie half-way and whose final
\* balance is `final`
BreakdownSides(o, ties, final) ==
    {u \in [fv : Sides(o.interest_rate > 0 /\ (IsTie(final) \/ IsTie(Halved(o, final)))),
             bd : Sides(o.interest_rate > 0
                        /\ ties \cap {"starting_balance", "balance"} # {}),
             tl : {0},
             gross : Sides("gross_interest" \in ties),
             tax : Sides("tax_paid" \in ties),
             net : Sides("net_interest" \in ties)] :
        /\ SameAmounts(o.tax_rate, u)
        /\ SameTaxedInterest(o.tax_rate) /\ u.fv # 0 /\ u.bd # 0 => u.fv = u.bd}

\* the sides the half-way amounts of object o can take in its two loops, for
\* the objects the model runs the loops of; the final balance of future_value
\* is the one of breakdown
CalcUlpChoices(o) ==
    IF ~Representable(o) THEN {NoUlp}
    ELSE BreakdownSides(o, HalfWay(o, BreakdownLocals(o), {}),
                        BreakdownLoop(o, BreakdownLocals(o), NoUlp).balance)

\* CompoundInterest(**a) of calculator.py
CalcInit(a) ==
    /\ obj = NoObject
    /\ raised = NoError
    /\ pc = "idle"
    /\ call' = [name |-> "__init__", args |-> a]
    /\ LET d == CalcDefaults(a)
           e == CalcInitError(d)
       IN  /\ raised' = e
           /\ obj' = IF e = NoError THEN CalcObject(d) ELSE NoObject
    /\ ulp' \in IF obj' = NoObject THEN {NoUlp} ELSE CalcUlpChoices(obj')
    /\ UNCHANGED <<pc, loc, ret>>

\* breakdown(), up to the loop
Breakdown ==
    /\ obj.cls = "calculator"
    /\ pc = "idle"
    /\ call' = [name |-> "breakdown", args |-> PyNone]
    /\ raised' = NoError
    /\ ret' = NoReturn
    /\ pc' = "breakdown"
    /\ loc' = BreakdownLocals(obj)
    /\ UNCHANGED <<obj, ulp>>

BreakdownStep ==
    /\ pc = "breakdown"
    /\ loc.period <= loc.total_periods
    /\ loc' = BreakdownBody(obj, loc, ulp)
    /\ UNCHANGED <<obj, raised, call, pc, ret, ulp>>

\* return pd.DataFrame(data)
BreakdownReturn ==
    /\ pc = "breakdown"
    /\ loc.period > loc.total_periods
    /\ ret' = Return("breakdown", loc.data)
    /\ pc' = "idle"
    /\ loc' = NoLocals
    /\ UNCHANGED <<obj, raised, call, ulp>>

(***************************************************************************)
(* pandas: DataFrame(data) has the keys of the dicts as its columns, and   *)
(* none when data is empty; df[column] raises KeyError for a column the    *)
(* frame does not have.                                                    *)
(***************************************************************************)
Columns(data) == IF data = <<>> THEN {} ELSE DOMAIN data[1]

RECURSIVE ColumnSum(_, _)
ColumnSum(data, column) ==
    IF data = <<>> THEN 0 ELSE data[1][column] + ColumnSum(Tail(data), column)

\* round(df[column].sum(), 2) of whole cents, or the KeyError of df[column]
TotalOf(data, column) ==
    IF column \in Columns(data)
    THEN [error |-> NoError, value |-> ColumnSum(data, column)]
    ELSE [error |-> Error("KeyError", column), value |-> 0]

(***************************************************************************)
(* calculator.py, the totals                                               *)
(***************************************************************************)
\* round(self.contribution * self.years * self.contrib_periods, 2)
TotalContributionsValue(o) ==
    round2((o.contribution \div YearDen) * (o.years * o.contrib_periods), 0)

total_contributions ==
    /\ obj.cls = "calculator"
    /\ pc = "idle"
    /\ call' = [name |-> "total_contributions", args |-> PyNone]
    /\ raised' = NoError
    /\ ret' = Return("total_contributions", TotalContributionsValue(obj))
    /\ UNCHANGED <<obj, pc, loc, ulp>>

\* the call name raises the error of t, or returns the value of t
Outcome(name, t) ==
    /\ raised' = t.error
    /\ ret' = IF t.error = NoError THEN Return(name, t.value) ELSE NoReturn

\* df = self.breakdown(); return round(df[column].sum(), 2)
BreakdownTotal(name, column) ==
    /\ obj.cls = "calculator"
    /\ pc = "idle"
    /\ call' = [name |-> name, args |-> PyNone]
    /\ Outcome(name, TotalOf(BreakdownData(obj, ulp), column))
    /\ UNCHANGED <<obj, pc, loc, ulp>>

total_gross_interest_earned ==
    BreakdownTotal("total_gross_interest_earned", "gross_interest")

total_net_interest_earned ==
    BreakdownTotal("total_net_interest_earned", "net_interest")

\* if self.tax_rate == 0: return 0.0, before breakdown is called
total_tax_paid ==
    IF obj.cls = "calculator" /\ obj.tax_rate = 0
    THEN /\ pc = "idle"
         /\ call' = [name |-> "total_tax_paid", args |-> PyNone]
         /\ raised' = NoError
         /\ ret' = Return("total_tax_paid", 0)
         /\ UNCHANGED <<obj, pc, loc, ulp>>
    ELSE BreakdownTotal("total_tax_paid", "tax_paid")


(***************************************************************************)
(* core.py, the class attributes                                           *)
(***************************************************************************)
pa == <<"p", ".", "a", ".">>
ps == <<"p", ".", "s", ".">>
pq == <<"p", ".", "q", ".">>
pm == <<"p", ".", "m", ".">>
pbiw == <<"p", ".", "b", "i", "w", ".">>
pw == <<"p", ".", "w", ".">>
pd == <<"p", ".", "d", ".">>

RATE_PERIOD_MAP ==
    (pa :> annually) @@ (ps :> semiannually) @@ (pq :> quarterly) @@
    (pm :> monthly) @@ (pbiw :> biweekly) @@ (pw :> weekly) @@ (pd :> daily) @@
    (annually :> [per_year |-> 1]) @@ (semiannually :> [per_year |-> 2]) @@
    (quarterly :> [per_year |-> 4]) @@ (monthly :> [per_year |-> 12]) @@
    (biweekly :> [per_year |-> 26]) @@ (weekly :> [per_year |-> 52]) @@
    (daily :> [per_year |-> 365])

FREQ_OPTIONS == {annually, semiannually, quarterly, monthly, biweekly, weekly, daily}
RATE_BASIS_OPTIONS == {pa, ps, pq, pm, pbiw, pw, pd}
TIMING_OPTIONS == {start, end}

COMPOUND_FREQ_MAP ==
    (annually :> "A-DEC") @@ (semiannually :> "6M") @@ (quarterly :> "QE") @@
    (monthly :> "M") @@ (biweekly :> "2W-SUN") @@ (weekly :> "W-SUN") @@
    (daily :> "D")

CONTRIB_FREQ_MAP ==
    (annually :> ((start :> "AS") @@ (end :> "A-DEC"))) @@
    (semiannually :> ((start :> "6MS") @@ (end :> "6M"))) @@
    (quarterly :> ((start :> "QS") @@ (end :> "QE"))) @@
    (monthly :> ((start :> "MS") @@ (end :> "M"))) @@
    (biweekly :> ((start :> "2W-MON") @@ (end :> "2W-SUN"))) @@
    (weekly :> ((start :> "W-MON") @@ (end :> "W-SUN"))) @@
    (daily :> ((start :> "D") @@ (end :> "D")))

(***************************************************************************)
(* Dates.  A timestamp at midnight is its proleptic Gregorian ordinal      *)
(* (date.toordinal()), so that dates compare and subtract as in the code.  *)
(***************************************************************************)
IsLeap(y) == (y % 4 = 0 /\ y % 100 # 0) \/ y % 400 = 0

DaysInMonth(y, m) ==
    IF m = 2 THEN (IF IsLeap(y) THEN 29 ELSE 28)
    ELSE IF m \in {4, 6, 9, 11} THEN 30 ELSE 31

DaysBeforeYear(y) == (y - 1) * 365 + (y - 1) \div 4 - (y - 1) \div 100 + (y - 1) \div 400

\* the days of a common year before each month
DaysBefore == <<0, 31, 59, 90, 120, 151, 181, 212, 243, 273, 304, 334>>

DaysBeforeMonth(y, m) == DaysBefore[m] + (IF m > 2 /\ IsLeap(y) THEN 1 ELSE 0)

\* date.toordinal()
Ordinal(y, m, d) == DaysBeforeYear(y) + DaysBeforeMonth(y, m) + d

\* the year of the day with ordinal n
YearOfOrdinal(n) ==
    CHOOSE y \in (n \div 366)..(n \div 365 + 1) :
        DaysBeforeYear(y) < n /\ n <= DaysBeforeYear(y + 1)

\* the month of the k-th day of year y
MonthOfDay(y, k) ==
    CHOOSE m \in 1..12 :
        DaysBeforeMonth(y, m) < k /\ k <= DaysBeforeMonth(y, m) + DaysInMonth(y, m)

\* the k-th day of year y, which is in month m
CivilDate(y, m, k) == [year |-> y, month |-> m, day |-> k - DaysBeforeMonth(y, m)]

\* the k-th day of year y
DayOfYear(y, k) == CivilDate(y, MonthOfDay(y, k), k)

\* the day with ordinal n, which is in year y
CivilIn(y, n) == DayOfYear(y, n - DaysBeforeYear(y))

\* date.fromordinal(n): the year, the month and the day of a timestamp
Civil(n) == CivilIn(YearOfOrdinal(n), n)

\* Timestamp.weekday(): Monday is 0
weekday(n) == (n + 6) % 7

DigitChars == <<"0", "1", "2", "3", "4", "5", "6", "7", "8", "9">>

Digits(n, width) == [i \in 1..width |-> DigitChars[((n \div 10^(width - i)) % 10) + 1]]

\* "%d.%m.%Y" of the date c
Format(c) ==
    Digits(c.day, 2) \o <<".">> \o Digits(c.month, 2) \o <<".">> \o Digits(c.year, 4)

\* Timestamp.strftime("%d.%m.%Y")
strftime(n) == Format(Civil(n))

DigitValue(c) == CHOOSE v \in 0..9 : DigitChars[v + 1] = c

RECURSIVE Number(_)
Number(cs) ==
    IF cs = <<>> THEN 0
    ELSE 10 * Number(SubSeq(cs, 1, Len(cs) - 1)) + DigitValue(cs[Len(cs)])

\* the ordinal of the day d of month m of year y, or -1 when there is no such
\* day
DateOrdinal(y, m, d) ==
    IF y >= 1 /\ m \in 1..12 /\ d >= 1 /\ d <= DaysInMonth(y, m)
    THEN Ordinal(y, m, d)
    ELSE -1

\* datetime.fromisoformat(s) for a calendar date YYYY-MM-DD: the timestamp, or
\* -1 for the ValueError
fromisoformat(s) ==
    IF /\ Len(s) = 10
       /\ s[5] = "-" /\ s[8] = "-"
       /\ \A i \in {1, 2, 3, 4, 6, 7, 9, 10} : \E v \in 1..10 : DigitChars[v] = s[i]
    THEN DateOrdinal(Number(SubSeq(s, 1, 4)), Number(SubSeq(s, 6, 7)),
                     Number(SubSeq(s, 9, 10)))
    ELSE -1

\* the date c, k years on
YearsOn(c, k) ==
    Ordinal(c.year + k, c.month, Min(c.day, DaysInMonth(c.year + k, c.month)))

\* start_ts + DateOffset(years=k): the same day k years on, the 29th of
\* February falling back to the 28th
AddYears(n, k) == YearsOn(Civil(n), k)

\* the months are counted from year 0
MonthIndexOf(c) == c.year * 12 + c.month - 1
MonthIndex(n) == MonthIndexOf(Civil(n))
MonthBegin(mi) == Ordinal(mi \div 12, (mi % 12) + 1, 1)
LastDay(y, m) == Ordinal(y, m, DaysInMonth(y, m))
MonthEnd(mi) == LastDay(mi \div 12, (mi % 12) + 1)

\* the pandas offset of a frequency alias: every n-th end or beginning of a
\* month among `months`, every n-th `weekday`, or every day
OffsetOf(freq) ==
    CASE freq = "A-DEC" -> [unit |-> "month", at |-> "end", months |-> {12}, n |-> 12]
      [] freq = "6M" -> [unit |-> "month", at |-> "end", months |-> 1..12, n |-> 6]
      [] freq = "QE" -> [unit |-> "month", at |-> "end", months |-> {3, 6, 9, 12}, n |-> 3]
      [] freq = "M" -> [unit |-> "month", at |-> "end", months |-> 1..12, n |-> 1]
      [] freq = "AS" -> [unit |-> "month", at |-> "begin", months |-> {1}, n |-> 12]
      [] freq = "6MS" -> [unit |-> "month", at |-> "begin", months |-> 1..12, n |-> 6]
      [] freq = "QS" -> [unit |-> "month", at |-> "begin", months |-> {1, 4, 7, 10}, n |-> 3]
      [] freq = "MS" -> [unit |-> "month", at |-> "begin", months |-> 1..12, n |-> 1]
      [] freq = "2W-SUN" -> [unit |-> "week", weekday |-> 6, n |-> 2]
      [] freq = "W-SUN" -> [unit |-> "week", weekday |-> 6, n |-> 1]
      [] freq = "2W-MON" -> [unit |-> "week", weekday |-> 0, n |-> 2]
      [] freq = "W-MON" -> [unit |-> "week", weekday |-> 0, n |-> 1]
      [] freq = "D" -> [unit |-> "day"]

SetMin(S) == CHOOSE x \in S : \A y \in S : x <= y
SetMax(S) == CHOOSE x \in S : \A y \in S : y <= x

\* every step-th day from first up to last_ts
EveryDays(first, last_ts, step) ==
    {first + step * k : k \in 0..((last_ts - first) \div step)}

\* the date of the offset f in the month with index mi
OffsetDate(f, mi) == IF f.at = "end" THEN MonthEnd(mi) ELSE MonthBegin(mi)

\* the dates of the offset f in every n-th month from the month with index
\* first up to the month with index last
EveryMonths(f, first, last) ==
    {OffsetDate(f, first + f.n * k) : k \in 0..((last - first) \div f.n)}

\* the months from index lo to index hi that the offset f falls in, on a date
\* that is not before first_ts
OnOffset(f, first_ts, lo, hi) ==
    {mi \in lo..hi : ((mi % 12) + 1) \in f.months /\ OffsetDate(f, mi) >= first_ts}

\* the dates up to last_ts of the offset f, from the first of the months `on`
MonthRange(f, on, last_ts) ==
    IF on = {} THEN {}
    ELSE {d \in EveryMonths(f, SetMin(on), MonthIndex(last_ts)) : d <= last_ts}

\* the dates of the offset f from first_ts to last_ts
OffsetRange(first_ts, last_ts, f) ==
    IF f.unit = "day" THEN first_ts..last_ts
    ELSE IF f.unit = "week"
    THEN EveryDays(first_ts + ((f.weekday - weekday(first_ts)) % 7), last_ts, 7 * f.n)
    ELSE MonthRange(f, OnOffset(f, first_ts, MonthIndex(first_ts), MonthIndex(last_ts)),
                    last_ts)

\* pd.date_range(start, end, freq): from the first date of the offset that is
\* not before start, every n-th one up to end
date_range(first_ts, last_ts, freq) == OffsetRange(first_ts, last_ts, OffsetOf(freq))

\* the dates of S from hi down to lo
descending(S, lo, hi) ==
    LET InS(d) == d \in S
    IN  SelectSeq([i \in 1..(hi - lo + 1) |-> hi - i + 1], InS)

\* sorted(d for d in S if lo <= d <= hi)
sorted(S, lo, hi) ==
    LET InS(d) == d \in S
    IN  SelectSeq([i \in 1..(hi - lo + 1) |-> lo + i - 1], InS)

(***************************************************************************)
(* core.py, CompoundInterest.__init__                                      *)
(***************************************************************************)
\* a datetime instance, of which the model keeps the date
PyDatetime(n) == [t |-> "datetime", v |-> n]

\* the keyword defaults of the signature (start_date is always passed: its
\* default is the day the module was imported)
CoreDefaults(a) ==
    [a EXCEPT
        !.comp_freq = IF @ = Omitted THEN PyNone ELSE @,
        !.contribution = IF @ = Omitted THEN PyFloat(0) ELSE @,
        !.contribution_freq = IF @ = Omitted THEN PyNone ELSE @,
        !.contribution_timing = IF @ = Omitted THEN PyStr(end) ELSE @,
        !.tax_rate = IF @ = Omitted THEN PyFloat(0) ELSE @]

\* the first check that fails, in the order of the code, or NoError
CoreInitError(a) ==
    IF ~IsNumber(a.init_value)
        THEN Error("TypeError", "init_value must be a number (int or float).")
    ELSE IF a.init_value.v < 0 THEN Error("ValueError", "init_value must be non-negative.")
    ELSE IF ~IsNumber(a.interest_rate)
        THEN Error("TypeError", "interest_rate must be a number (int or float).")
    ELSE IF a.interest_rate.v < 0
        THEN Error("ValueError", "interest_rate must be non-negative.")
    ELSE IF ~IsStr(a.rate_basis) THEN Error("TypeError", "rate_basis must be a string.")
    ELSE IF a.rate_basis.s \notin RATE_BASIS_OPTIONS
        THEN Error("ValueError", "rate_basis must be one of {...}.")
    ELSE IF ~IsNumber(a.years)
        THEN Error("TypeError", "years must be a number (int or float).")
    ELSE IF a.years.v <= 0 THEN Error("ValueError", "years must be greater than zero.")
    ELSE IF a.years.v > 200 * YearDen THEN Error("ValueError", "years must not exceed 200.")
    ELSE IF IsStr(a.start_date) /\ fromisoformat(a.start_date.s) < 0
        THEN Error("ValueError", "start_date string is not in a valid ISO format.")
    ELSE IF ~IsStr(a.start_date) /\ a.start_date.t # "datetime"
        THEN Error("TypeError", "start_date must be either a string or a datetime instance.")
    ELSE IF ~IsNone(a.comp_freq) /\ ~IsStr(a.comp_freq)
        THEN Error("TypeError", "comp_freq must be a string.")
    ELSE IF ~IsNone(a.comp_freq) /\ a.comp_freq.s \notin FREQ_OPTIONS
        THEN Error("ValueError", "comp_freq must be one of {...}.")
    ELSE IF ~IsNumber(a.contribution)
        THEN Error("TypeError", "contribution must be a number (int or float).")
    ELSE IF ~IsNone(a.contribution_freq) /\ ~IsStr(a.contribution_freq)
        THEN Error("TypeError", "contribution_freq must be a string.")
    ELSE IF ~IsNone(a.contribution_freq) /\ a.contribution_freq.s \notin FREQ_OPTIONS
        THEN Error("ValueError", "contribution_freq must be one of {...} if provided.")
    ELSE IF ~IsStr(a.contribution_timing)
        THEN Error("TypeError", "contribution_timing must be a string.")
    ELSE IF a.contribution_timing.s \notin TIMING_OPTIONS
        THEN Error("ValueError", "contribution_timing must be one of {...}.")
    ELSE IF ~IsNumber(a.tax_rate)
        THEN Error("TypeError", "tax_rate must be a number (int or float).")
    ELSE IF ~(0 <= a.tax_rate.v /\ a.tax_rate.v <= RateDen)
        THEN Error("ValueError", "tax_rate must be between 0 and 1 (inclusive).")
    ELSE NoError

\* (1 + nominal_interest_rate) ** (n / 365) - 1, kept as the rate and the n
\* of its exponent
to_daily_rate(nominal_interest_rate, rate_basis) ==
    [nominal |-> nominal_interest_rate,
     per_year |-> RATE_PERIOD_MAP[RATE_PERIOD_MAP[rate_basis]].per_year]

\* the attributes __init__ assigns when no check fails
CoreObject(a) ==
    [cls |-> "core",
     init_value |-> a.init_value.v,
     nominal_interest_rate |-> a.interest_rate.v,
     rate_basis |-> a.rate_basis.s,
     daily_rate |-> to_daily_rate(a.interest_rate.v, a.rate_basis.s),
     years |-> a.years.v,
     start_date |-> IF IsStr(a.start_date) THEN fromisoformat(a.start_date.s)
                    ELSE a.start_date.v,
     comp_freq |-> IF IsNone(a.comp_freq) THEN RATE_PERIOD_MAP[a.rate_basis.s]
                   ELSE a.comp_freq.s,
     contribution |-> a.contribution.v,
     contribution_freq |-> a.contribution_freq,
     contribution_timing |-> a.contribution_timing.s,
     tax_rate |-> a.tax_rate.v]


(***************************************************************************)
(* core.py, timeline                                                       *)
(***************************************************************************)
weekday_map ==
    (0 :> "Mon") @@ (1 :> "Tue") @@ (2 :> "Wed") @@ (3 :> "Thu") @@
    (4 :> "Fri") @@ (5 :> "Sat") @@ (6 :> "Sun")

\* the dict appended to results (lines 275-286, 324-335), not yet rounded
Event(ts, v) ==
    [date |-> strftime(ts),
     weekday |-> weekday_map[weekday(ts)],
     start_balance |-> v.start_balance,
     contribution |-> v.contribution,
     gross_interest |-> v.gross_interest,
     tax |-> v.tax,
     net_interest |-> v.net_interest,
     end_balance |-> v.end_balance]

\* lines 261-283 of timeline: the locals before the loop, with the row of the
\* start date
TimelineStart(o, start_ts, end_ts, comp_dates, contr_dates, initial_contribution) ==
    [start_ts |-> start_ts,
     end_ts |-> end_ts,
     comp_dates |-> comp_dates,
     contr_dates |-> contr_dates,
     sorted_dates |-> sorted({start_ts, end_ts} \cup comp_dates \cup contr_dates,
                             start_ts, end_ts),
     position |-> 1,
     results |-> <<Event(start_ts, [start_balance |-> o.init_value,
                                    contribution |-> initial_contribution,
                                    gross_interest |-> 0,
                                    tax |-> 0,
                                    net_interest |-> 0,
                                    end_balance |-> o.init_value + initial_contribution])>>,
     current_balance |-> o.init_value + initial_contribution,
     last_comp_date |-> start_ts,
     prev_date |-> start_ts]

\* lines 267-270: the contribution of the start date
InitialContribution(o, start_ts, contr_dates) ==
    IF start_ts \in contr_dates /\ o.contribution_timing = start THEN o.contribution ELSE 0

\* lines 241-250: the contribution dates
ContributionDates(o, start_ts, end_ts) ==
    IF ~IsNone(o.contribution_freq) /\ o.contribution > 0
    THEN date_range(start_ts, end_ts,
                    CONTRIB_FREQ_MAP[o.contribution_freq.s][o.contribution_timing])
    ELSE {}

\* lines 255-283 of timeline, for the dates of the compoundings and of the
\* contributions
TimelineEvents(o, start_ts, end_ts, comp_dates, contr_dates) ==
    TimelineStart(o, start_ts, end_ts, comp_dates, contr_dates,
                  InitialContribution(o, start_ts, contr_dates))

\* lines 233-283 of timeline, from the start date to the end date
TimelineDates(o, start_ts, end_ts) ==
    TimelineEvents(o, start_ts, end_ts,
                   date_range(start_ts, end_ts, COMPOUND_FREQ_MAP[o.comp_freq]),
                   ContributionDates(o, start_ts, end_ts))

\* lines 227-283 of timeline: the dates, and the row of the start date
TimelineLocals(o) ==
    TimelineDates(o, o.start_date, AddYears(o.start_date, o.years \div YearDen))

\* (1 + self.daily_rate) ** comp_interval_days - 1, or -1 when the model has
\* no exact value for it
CompoundFactor(daily_rate, comp_interval_days) ==
    IF daily_rate.nominal = 0 THEN 0
    ELSE IF (daily_rate.per_year * comp_interval_days) % 365 # 0 THEN -1
    ELSE LET f == ScaledPow(RateDen + daily_rate.nominal,
                            (daily_rate.per_year * comp_interval_days) \div 365,
                            8 * RateDen)
         IN  IF f < 0 THEN -1 ELSE f - RateDen

\* tax_amount = gross_interest * self.tax_rate
TaxAmount(o, gross) == Mul(gross, o.tax_rate)

\* the days a compounding on current_date is taken to cover, were they
\* counted from the event before (n_days, line 293)
DaysSincePreviousEvent(l, current_date) == current_date - l.prev_date

\* comp_interval_days = (current_date - last_comp_date).days
ElapsedDays(l, current_date) == current_date - l.last_comp_date

\* one iteration of the loop of timeline (lines 291-337)
TimelineBody(o, l) ==
    LET current_date == l.sorted_dates[l.position]
        dep1 == current_date \in l.contr_dates /\ o.contribution_timing = start
        b1 == IF dep1 THEN l.current_balance + o.contribution ELSE l.current_balance
        compounding == current_date \in l.comp_dates
        comp_interval_days == ElapsedDays(l, current_date)
        credited == compounding /\ comp_interval_days > 0
        gross == IF credited
                 THEN Mul(b1, CompoundFactor(o.daily_rate, comp_interval_days))
                 ELSE 0
        tax == IF credited THEN TaxAmount(o, gross) ELSE 0
        net == IF credited THEN NetInterest(gross, tax) ELSE 0
        b2 == b1 + net
        dep2 == current_date \in l.contr_dates /\ o.contribution_timing = end
        b3 == IF dep2 THEN b2 + o.contribution ELSE b2
    IN  IF current_date = l.start_ts
        THEN [l EXCEPT !.position = l.position + 1]
        ELSE [l EXCEPT
                !.position = l.position + 1,
                !.current_balance = b3,
                !.last_comp_date = IF compounding THEN current_date ELSE @,
                !.prev_date = current_date,
                !.results = Append(@, Event(current_date,
                    [start_balance |-> l.current_balance,
                     contribution |-> (IF dep1 THEN o.contribution ELSE 0)
                                      + (IF dep2 THEN o.contribution ELSE 0),
                     gross_interest |-> gross,
                     tax |-> tax,
                     net_interest |-> net,
                     end_balance |-> b3]))]

\* timeline_df[cols_to_round].round(2): the amounts in whole cents; u holds
\* the sides the half-way amounts take
RoundEvents(results, u) ==
    [i \in 1..Len(results) |->
        LET before == IF \E j \in 1..(i - 1) : results[j].gross_interest # 0
                      THEN u.tl ELSE 0
            after == IF \E j \in 1..i : results[j].gross_interest # 0 THEN u.tl ELSE 0
        IN  [results[i] EXCEPT
                !.start_balance = round2(@, before),
                !.contribution = round2(@, 0),
                !.gross_interest = round2(@, u.gross),
                !.tax = round2(@, u.tax),
                !.net_interest = round2(@, u.net),
                !.end_balance = round2(@, after)]]

RECURSIVE TimelineLoop(_, _)
TimelineLoop(o, l) ==
    IF l.position > Len(l.sorted_dates) THEN l ELSE TimelineLoop(o, TimelineBody(o, l))

\* the rows of the frame self.timeline() returns
TimelineData(o, u) == RoundEvents(TimelineLoop(o, TimelineLocals(o)).results, u)

(***************************************************************************)
(* The configurations of the calendar-date engine that are run: those of   *)
(* which the model has the exact interest, with at most MaxEvents rows.    *)
(***************************************************************************)
\* the compounding dates after the start date
CompoundingDays(l) == {d \in l.comp_dates : l.start_ts < d /\ d <= l.end_ts}

\* the compounding date before d, or the start date
PreviousCompounding(l, d) == SetMax({l.start_ts} \cup {e \in CompoundingDays(l) : e < d})

\* the binary places the interest and the tax of the compounding date d consume
EventCost(o, l, d) ==
    RateCost(CompoundFactor(o.daily_rate, d - PreviousCompounding(l, d)))
    + RateCost(o.tax_rate)

\* the timeline with the locals l has at most MaxEvents rows and exact
\* interests
ExactTimeline(o, l) ==
    /\ Len(l.sorted_dates) <= MaxEvents
    /\ \A d \in CompoundingDays(l) :
         /\ CompoundFactor(o.daily_rate, d - PreviousCompounding(l, d)) >= 0
         /\ Cardinality(CompoundingDays(l)) * EventCost(o, l, d)
                <= Min(TwoAdic(o.init_value), TwoAdic(o.contribution))

CoreRepresentable(o) ==
    /\ o.years % YearDen = 0
    /\ ExactTimeline(o, TimelineLocals(o))

\* a row of results has a half-way amount in column
HasTie(results, column) == \E i \in 1..Len(results) : IsTie(results[i][column])

\* the sides the half-way amounts of the unrounded rows `results` can take
TimelineSides(o, results) ==
    {u \in [fv : {0}, bd : {0},
             tl : Sides(HasTie(results, "start_balance") \/ HasTie(results, "end_balance")),
             gross : Sides(HasTie(results, "gross_interest")),
             tax : Sides(HasTie(results, "tax")),
             net : Sides(HasTie(results, "net_interest"))] : SameAmounts(o.tax_rate, u)}

\* the sides the half-way amounts of the timeline of object o can take, for
\* the objects the model runs the timeline of
CoreUlpChoices(o) ==
    IF ~CoreRepresentable(o) THEN {NoUlp}
    ELSE TimelineSides(o, TimelineLoop(o, TimelineLocals(o)).results)

\* CompoundInterest(**a) of core.py
CoreInit(a) ==
    /\ obj = NoObject
    /\ raised = NoError
    /\ pc = "idle"
    /\ call' = [name |-> "__init__", args |-> a]
    /\ LET d == CoreDefaults(a)
           e == CoreInitError(d)
       IN  /\ raised' = e
           /\ obj' = IF e = NoError THEN CoreObject(d) ELSE NoObject
    /\ ulp' \in IF obj' = NoObject THEN {NoUlp} ELSE CoreUlpChoices(obj')
    /\ UNCHANGED <<pc, loc, ret>>

\* timeline(), up to the loop
Timeline ==
    /\ obj.cls = "core"
    /\ pc = "idle"
    /\ call' = [name |-> "timeline", args |-> PyNone]
    /\ raised' = NoError
    /\ ret' = NoReturn
    /\ pc' = "timeline"
    /\ loc' = TimelineLocals(obj)
    /\ UNCHANGED <<obj, ulp>>

\* for current_date in sorted_dates: one iteration
TimelineStep ==
    /\ pc = "timeline"
    /\ loc.position <= Len(loc.sorted_dates)
    /\ loc' = TimelineBody(obj, loc)
    /\ UNCHANGED <<obj, raised, call, pc, ret, ulp>>

\* lines 339-351: the frame with its amounts rounded
TimelineReturn ==
    /\ pc = "timeline"
    /\ loc.position > Len(loc.sorted_dates)
    /\ ret' = Return("timeline", RoundEvents(loc.results, ulp))
    /\ pc' = "idle"
    /\ loc' = NoLocals
    /\ UNCHANGED <<obj, raised, call, ulp>>

\* timeline_df = self.timeline(); return timeline_df[column].sum()
TimelineTotal(name, column) ==
    /\ obj.cls = "core"
    /\ pc = "idle"
    /\ call' = [name |-> name, args |-> PyNone]
    /\ raised' = NoError
    /\ ret' = Return(name, ColumnSum(TimelineData(obj, ulp), column))
    /\ UNCHANGED <<obj, pc, loc, ulp>>

core_total_contributions == TimelineTotal("core.total_contributions", "contribution")
total_gross_interest == TimelineTotal("core.total_gross_interest", "gross_interest")
core_total_tax_paid == TimelineTotal("core.total_tax_paid", "tax")
total_net_interest == TimelineTotal("core.total_net_interest", "net_interest")

date_2017_12_31 == <<"2", "0", "1", "7", "-", "1", "2", "-", "3", "1">>
date_2018_01_01 == <<"2", "0", "1", "8", "-", "0", "1", "-", "0", "1">>

CoreArgs(iv, r, sd, y, cf, d, tx) ==
    [init_value |-> PyFloat(iv), interest_rate |-> PyFloat(r), rate_basis |-> PyStr(pa),
     years |-> PyInt(y), start_date |-> PyStr(sd), comp_freq |-> cf,
     contribution |-> PyFloat(d[1]), contribution_freq |-> d[2],
     contribution_timing |-> PyStr(d[3]), tax_rate |-> PyFloat(tx)]

\* nothing deposited; 0.50 with no frequency given; 0.50 every year at either
\* timing, at the end of every quarter, on every second Monday
CoreDeposits ==
    {<<0, PyNone, end>>, <<50 * Cent, PyNone, end>>,
     <<50 * Cent, PyStr(annually), start>>, <<50 * Cent, PyStr(annually), end>>,
     <<50 * Cent, PyStr(quarterly), end>>, <<50 * Cent, PyStr(biweekly), start>>}

\* init_value 0.60 or 10.0025; 0 or 50 % p.a.; from the last day of 2017 or the
\* first of 2018, for 1 or 2 years; compounding every year (given or by the
\* rate basis) or quarter; tax_rate 0 or 75 %
CoreEngineArgs ==
    {a \in {CoreArgs(iv, r, sd, y, cf, d, tx) :
                iv \in {60 * Cent, 1000 * Cent + Cent \div 4},
                r \in {0, RateDen \div 2},
                sd \in {date_2017_12_31, date_2018_01_01},
                y \in {YearDen, 2 * YearDen},
                cf \in {PyNone, PyStr(annually), PyStr(quarterly)},
                d \in CoreDeposits,
                tx \in {0, (3 * RateDen) \div 4}} :
        CoreRepresentable(CoreObject(a))}

(***************************************************************************)
(* The configurations of the period-index engine that are run.             *)
(***************************************************************************)
Frequencies == DOMAIN FREQ_MAP
Timings == {start, end}

\* years: 1/32, 1/4, 1/2, 1, 1.5, 2
YearChoices == {YearDen \div 32, YearDen \div 4, YearDen \div 2, YearDen,
                YearDen + YearDen \div 2, 2 * YearDen}

CalcArgs(iv, r, y, cf, c, kf, tm, tx) ==
    [init_value |-> PyFloat(iv), interest_rate |-> PyFloat(r), years |-> PyFloat(y),
     comp_freq |-> PyStr(cf), contribution |-> PyFloat(c),
     contribution_freq |-> PyStr(kf), contribution_timing |-> PyStr(tm),
     tax_rate |-> PyFloat(tx)]

\* every schedule: 0.60 at no interest, 0.50 deposited at every frequency
ScheduleArgs ==
    {CalcArgs(60 * Cent, 0, y, cf, 50 * Cent, kf, tm, 0) :
        y \in YearChoices, cf \in Frequencies, kf \in Frequencies, tm \in Timings}

\* init_value 0.60 or 10.0025; interest_rate 0, 50 % or 56.25 % = 1.25^2 - 1;
\* 1/2 to 2 years of annual and semiannual periods; nothing deposited, or 0.50
\* at either timing; tax_rate 0, 75 % or 100 %
MoneyArgs ==
    {CalcArgs(iv, r, y, cf, d[1], kf, d[2], tx) :
        iv \in {60 * Cent, 1000 * Cent + Cent \div 4},
        r \in {0, RateDen \div 2, (9 * RateDen) \div 16},
        y \in {YearDen \div 2, YearDen, YearDen + YearDen \div 2, 2 * YearDen},
        cf \in {annually, semiannually}, kf \in {annually, semiannually},
        d \in {<<0, end>>, <<50 * Cent, start>>, <<50 * Cent, end>>},
        tx \in {0, (3 * RateDen) \div 4, RateDen}}

\* 3 to 5 years of annual periods: 0.60 at 0 or 50 %; nothing deposited, or
\* 0.50 at either timing; tax_rate 0 or 75 %
AnnualArgs ==
    {CalcArgs(60 * Cent, r, y * YearDen, annually, d[1], annually, d[2], tx) :
        r \in {0, RateDen \div 2},
        y \in 3..5,
        d \in {<<0, end>>, <<50 * Cent, start>>, <<50 * Cent, end>>},
        tx \in {0, (3 * RateDen) \div 4}}

EngineArgs ==
    {a \in ScheduleArgs \cup MoneyArgs \cup AnnualArgs : Representable(CalcObject(a))}

Inflations == {PyFloat(0), PyFloat(RateDen)}

(***************************************************************************)
(* calculator.py, to_pa_rate.  Its rates are floats from 0 to 1 that are   *)
(* multiples of 2^-57 (every float from 1/32 to 1 is one), held as         *)
(* hi / 2^26 + mid / 2^52 + lo / 2^57, so that the rounding of 1 + rate to *)
(* a float, which keeps 52 binary places, is computed.                     *)
(***************************************************************************)
Limb == 2^26
LastPlaces == 2^5

Float(hi, mid, lo) == [hi |-> hi, mid |-> mid, lo |-> lo]

\* the rate k / RateDen as a float
GridFloat(k) == Float(k * (Limb \div RateDen), 0, 0)

\* the float 1 + x, less 1: x rounded to 52 binary places, half to even
OnePlus(x) ==
    LET up == 2 * x.lo > LastPlaces \/ (2 * x.lo = LastPlaces /\ x.mid % 2 = 1)
        mid == IF up THEN x.mid + 1 ELSE x.mid
    IN  IF mid = Limb THEN Float(x.hi + 1, 0, 0) ELSE Float(x.hi, mid, 0)

\* s is a rate of the grid whose n-th power of 1 + s the model has exactly
ExactPower(s, n) ==
    /\ s.mid = 0
    /\ s.hi % (Limb \div RateDen) = 0
    /\ ScaledPow(RateDen + s.hi \div (Limb \div RateDen), n, 16 * RateDen) >= 0

\* (1 + s) ** n - 1 for the float 1 + s: the float itself for n = 1, the
\* exact value where the model has it, and the power left unevaluated else
PowerLessOne(s, n) ==
    IF n = 1 THEN s
    ELSE IF ExactPower(s, n)
    THEN GridFloat(ScaledPow(RateDen + s.hi \div (Limb \div RateDen), n, 16 * RateDen)
                   - RateDen)
    ELSE [base |-> s, exponent |-> n]

PERIOD_MAP ==
    (pa :> 1) @@ (ps :> 2) @@ (pq :> 4) @@ (pm :> 12) @@ (pbiw :> 26) @@
    (pw :> 52) @@ (pd :> 365)

\* a list or a dict has no hash: `rate_period not in PERIOD_MAP` raises
Hashable(x) == x.t \notin {"list", "dict"}

\* the key rate_period is in PERIOD_MAP
InPeriodMap(rate_period) == IsStr(rate_period) /\ rate_period.s \in DOMAIN PERIOD_MAP

\* CompoundInterest.to_pa_rate(nominal_rate, rate_period), a static method
to_pa_rate(nominal_rate, rate_period) ==
    /\ pc = "idle"
    /\ call' = [name |-> "to_pa_rate", args |-> <<nominal_rate, rate_period>>]
    /\ raised' = IF ~Hashable(rate_period) THEN Error("TypeError", "unhashable type")
                 ELSE IF ~InPeriodMap(rate_period)
                 THEN Error("ValueError", "Invalid rate_period")
                 ELSE NoError
    /\ ret' = IF raised' = NoError
              THEN Return("to_pa_rate",
                          PowerLessOne(OnePlus(nominal_rate), PERIOD_MAP[rate_period.s]))
              ELSE NoReturn
    /\ UNCHANGED <<obj, pc, loc, ulp>>

\* 0, 1/4096, 25 %, 50 %, 100 %; the floats 0.05, 0.1 and 0.3; 2^-52, and
\* 2^-53, 3 * 2^-54 and 0.5 + 2^-53, which lie between two floats above 1
RateFloats ==
    {GridFloat(0), GridFloat(1), GridFloat(RateDen \div 4), GridFloat(RateDen \div 2),
     GridFloat(RateDen), Float(3355443, 13421772, 26), Float(6710886, 26843545, 20),
     Float(20132659, 13421772, 24), Float(0, 1, 0), Float(0, 0, 16), Float(0, 0, 24),
     Float(Limb \div 2, 0, 16)}

\* the keys of PERIOD_MAP, and what is none: tags of the frequencies, a tag
\* in capitals, one without its last dot, the empty string, None, 12, a list
RatePeriods ==
    {PyStr(k) : k \in DOMAIN PERIOD_MAP} \cup
    {PyStr(annually), PyStr(monthly), PyStr(<<"P", ".", "A", ".">>),
     PyStr(<<"p", ".", "a">>), PyStr(<<>>), PyNone, PyInt(12), PyOther("list")}

(***************************************************************************)
(* The period-index engine: an object is built, and its methods are called *)
(* one after the other.                                                    *)
(***************************************************************************)
Init ==
    /\ obj = NoObject
    /\ raised = NoError
    /\ call = NoCall
    /\ pc = "idle"
    /\ loc = NoLocals
    /\ ret = NoReturn
    /\ ulp = NoUlp

Construct ==
    /\ obj = NoObject
    /\ call = NoCall
    /\ \E a \in EngineArgs : CalcInit(a)

CoreConstruct ==
    /\ obj = NoObject
    /\ call = NoCall
    /\ \E a \in CoreEngineArgs : CoreInit(a)

future_value == \E inflation \in Inflations : FutureValueCall(inflation)

Next ==
    \/ Construct
    \/ future_value
    \/ FutureValueStep
    \/ FutureValueReturn
    \/ Breakdown
    \/ BreakdownStep
    \/ BreakdownReturn
    \/ total_contributions
    \/ total_gross_interest_earned
    \/ total_net_interest_earned
    \/ total_tax_paid
    \/ CoreConstruct
    \/ Timeline
    \/ TimelineStep
    \/ TimelineReturn
    \/ core_total_contributions
    \/ total_gross_interest
    \/ core_total_tax_paid
    \/ total_net_interest

Spec == Init /\ [][Next]_vars

(***************************************************************************)
(* The arguments of the period-index engine: the constructor is called     *)
(* with one argument of a valid call replaced, or with every pair of       *)
(* frequencies for 1 or 2 years, and future_value with every kind of       *)
(* inflation.                                                              *)
(***************************************************************************)
\* CompoundInterest(0.60, 0.5, 1, "annually", 0.50, "annually", "end", 0.75)
BaseArgs ==
    CalcArgs(60 * Cent, RateDen \div 2, YearDen, annually, 50 * Cent, annually, end,
             (3 * RateDen) \div 4)

\* None, a string, a list
NotNumbers == {PyNone, PyStr(<<"1">>), PyOther("list")}

\* None, a number, a list
NotStrings == {PyNone, PyInt(1), PyOther("list")}

\* the tags of FREQ_MAP, tags to trim and to lower-case, an unknown tag, the
\* empty string and a blank one
FrequencyStrings ==
    {PyStr(f) : f \in Frequencies} \cup
    {PyStr(<<" ">> \o annually \o <<" ">>),
     PyStr(<<" ", "M", "O", "N", "T", "H", "L", "Y">>),
     PyStr(<<"y", "e", "a", "r", "l", "y">>),
     PyStr(<<>>), PyStr(<<" ", " ">>)}

TimingStrings ==
    {PyStr(start), PyStr(end), PyStr(<<" ", "S", "T", "A", "R", "T", " ">>),
     PyStr(<<"E", "n", "d">>), PyStr(<<"m", "i", "d", "d", "l", "e">>), PyStr(<<>>)}

CtorArgs ==
    {[BaseArgs EXCEPT !.init_value = x] :
        x \in NotNumbers \cup {PyFloat(0), PyInt(100 * Cent), PyBool(100 * Cent),
                              PyFloat(-1), PyInt(-100 * Cent)}} \cup
    {[BaseArgs EXCEPT !.interest_rate = x] :
        x \in NotNumbers \cup {PyFloat(0), PyInt(0), PyInt(RateDen), PyFloat(RateDen + 1),
                              PyFloat(-1), PyBool(RateDen)}} \cup
    {[BaseArgs EXCEPT !.years = x] :
        x \in NotNumbers \cup {PyFloat(0), PyInt(0), PyFloat(1), PyInt(2 * YearDen),
                              PyInt(200 * YearDen), PyFloat(200 * YearDen + 1),
                              PyFloat(-YearDen)}} \cup
    {[BaseArgs EXCEPT !.contribution = x] :
        x \in NotNumbers \cup {Omitted, PyFloat(0), PyInt(100 * Cent), PyFloat(-1)}} \cup
    {[BaseArgs EXCEPT !.tax_rate = x] :
        x \in NotNumbers \cup {Omitted, PyFloat(0), PyInt(RateDen), PyFloat(RateDen + 1),
                              PyFloat(-1)}} \cup
    {[BaseArgs EXCEPT !.comp_freq = x] : x \in NotStrings \cup FrequencyStrings} \cup
    {[BaseArgs EXCEPT !.contribution_freq = x] :
        x \in {Omitted} \cup NotStrings \cup FrequencyStrings} \cup
    {[BaseArgs EXCEPT !.contribution_timing = x] :
        x \in {Omitted} \cup NotStrings \cup TimingStrings} \cup
    {[BaseArgs EXCEPT !.comp_freq = x, !.contribution_freq = y] :
        x \in FrequencyStrings, y \in {Omitted, PyNone}} \cup
    {[BaseArgs EXCEPT !.contribution = Omitted, !.contribution_freq = Omitted,
                      !.contribution_timing = Omitted, !.tax_rate = Omitted]} \cup
    {[BaseArgs EXCEPT !.comp_freq = PyStr(x), !.contribution_freq = PyStr(y),
                      !.years = PyInt(n * YearDen)] :
        x \in Frequencies, y \in Frequencies, n \in 1..2}

\* floats and ints inside and outside [0, 1], booleans, and what is no number
CtorInflations ==
    {PyFloat(0), PyInt(0), PyFloat(RateDen), PyInt(RateDen), PyFloat(RateDen \div 2),
     PyFloat(-1), PyInt(-RateDen), PyFloat(RateDen + 1), PyInt(2 * RateDen),
     PyBool(0), PyBool(RateDen), PyNone, PyStr(<<"0", ".", "0", "2">>),
     PyOther("list"), PyOther("dict"), PyOther("complex")}

CtorConstruct ==
    /\ obj = NoObject
    /\ call = NoCall
    /\ \E a \in CtorArgs : CalcInit(a)

CtorFutureValue == \E inflation \in CtorInflations : FutureValueCall(inflation)

NextCtor ==
    \/ CtorConstruct
    \/ CtorFutureValue
    \/ FutureValueStep
    \/ FutureValueReturn

SpecCtor == Init /\ [][NextCtor]_vars

(***************************************************************************)
(* The arguments of the calendar-date engine: the constructor is called    *)
(* with one argument of a valid call replaced, or two.                     *)
(***************************************************************************)
\* CompoundInterest(0.60, 0.5, "p.a.", 1, "2017-12-31", "annually", 0.50,
\*                  "annually", "end", 0.75)
CoreBaseArgs ==
    CoreArgs(60 * Cent, RateDen \div 2, date_2017_12_31, YearDen, PyStr(annually),
             <<50 * Cent, PyStr(annually), end>>, (3 * RateDen) \div 4)

\* the keys of RATE_PERIOD_MAP that are rate bases, a frequency tag, a tag in
\* capitals, the empty string
BasisStrings ==
    {PyStr(k) : k \in RATE_BASIS_OPTIONS} \cup
    {PyStr(annually), PyStr(<<"P", ".", "A", ".">>), PyStr(<<>>)}

\* ISO dates, a 13th month, a date in another format, a datetime, and what is
\* neither a string nor a datetime
StartDates ==
    {PyStr(date_2017_12_31), PyStr(date_2018_01_01),
     PyStr(<<"2", "0", "1", "8", "-", "1", "3", "-", "0", "1">>),
     PyStr(<<"3", "1", ".", "1", "2", ".", "2", "0", "1", "7">>),
     PyDatetime(736695), PyNone, PyInt(736695)}

\* rates and contributions inside and outside the stated domains
CoreRates == {PyFloat(0), PyFloat(RateDen \div 2), PyInt(RateDen), PyFloat(RateDen + 1),
              PyInt(2 * RateDen), PyFloat(-1)}

CoreContributions == {Omitted, PyFloat(0), PyInt(100 * Cent), PyFloat(-1),
                      PyFloat(-50 * Cent)}

CoreCtorArgs ==
    {[CoreBaseArgs EXCEPT !.init_value = x] :
        x \in NotNumbers \cup {PyFloat(0), PyInt(100 * Cent), PyBool(100 * Cent),
                              PyFloat(-1), PyInt(-100 * Cent)}} \cup
    {[CoreBaseArgs EXCEPT !.interest_rate = x, !.contribution = y] :
        x \in NotNumbers \cup CoreRates, y \in NotNumbers \cup CoreContributions} \cup
    {[CoreBaseArgs EXCEPT !.rate_basis = x] : x \in NotStrings \cup BasisStrings} \cup
    {[CoreBaseArgs EXCEPT !.years = x] :
        x \in NotNumbers \cup {PyFloat(0), PyInt(0), PyFloat(1), PyInt(2 * YearDen),
                              PyInt(200 * YearDen), PyFloat(200 * YearDen + 1),
                              PyFloat(-YearDen)}} \cup
    {[CoreBaseArgs EXCEPT !.start_date = x] : x \in StartDates} \cup
    {[CoreBaseArgs EXCEPT !.comp_freq = x, !.rate_basis = PyStr(b)] :
        x \in {Omitted} \cup NotStrings \cup FrequencyStrings, b \in {pa, pm}} \cup
    {[CoreBaseArgs EXCEPT !.contribution_freq = x] :
        x \in {Omitted} \cup NotStrings \cup FrequencyStrings} \cup
    {[CoreBaseArgs EXCEPT !.contribution_timing = x] :
        x \in {Omitted} \cup NotStrings \cup TimingStrings} \cup
    {[CoreBaseArgs EXCEPT !.tax_rate = x] :
        x \in NotNumbers \cup {Omitted, PyFloat(0), PyInt(RateDen), PyBool(RateDen),
                              PyFloat(RateDen + 1), PyFloat(-1)}}

NextCoreCtor == \E a \in CoreCtorArgs : CoreInit(a)

SpecCoreCtor == Init /\ [][NextCoreCtor]_vars

(***************************************************************************)
(* The rate converter, called with every rate and every rate period.       *)
(***************************************************************************)
NextRate == \E r \in RateFloats, p \in RatePeriods : to_pa_rate(r, p)

SpecRate == Init /\ [][NextRate]_vars

(***************************************************************************)
(* calculator.py on amounts from 2^53 up to 2^54.  The floats of that      *)
(* range are the even integers, so a balance is held as its excess k over  *)
(* 2^53, an even number, and a sum is rounded to the nearest even integer, *)
(* to the one with the even mantissa when two are as near.  The rates are  *)
(* the floats j * 2^-52 of the to_pa_rate section, compounded annually:    *)
(* period_rate is (1 + rate) ** 1.0 - 1, and the interest of a balance     *)
(* 2^53 + k at the period rate j * 2^-52 is 2 * j + k * j * 2^-52, the     *)
(* float product itself for these j.  An amount added to a balance is      *)
(* `whole` units and, if `more`, a positive fraction of a unit besides;    *)
(* tax_rate is 0, 1/2 or 1, for which interest * (1 - tax_rate) is exact.  *)
(* round(balance, 2) of an integer float is the float.                     *)
(***************************************************************************)
Amount(whole, more) == [whole |-> whole, more |-> more]

\* balance + x for the balance 2^53 + k, less 2^53
WideSum(k, x) ==
    LET s == k + x.whole
    IN  IF s % 2 = 0 THEN s
        ELSE IF x.more THEN s + 1
        ELSE IF (s - 1) % 4 = 0 THEN s - 1
        ELSE s + 1

\* interest = balance * period_rate, and interest *= 1 - self.tax_rate if
\* self.tax_rate > 0 (lines 215-217), for the balance 2^53 + k
WideInterest(o, k, period_rate) ==
    LET interest == Amount(2 * period_rate.mid, k * period_rate.mid > 0)
    IN  IF o.tax_rate = 0 THEN interest
        ELSE IF o.tax_rate = RateDen THEN Amount(0, FALSE)
        ELSE Amount(interest.whole \div 2, interest.more)

\* lines 185-206 of future_value, for annual compounding
WideLocals(o) ==
    LET compound_periods == FreqGet(o.comp_freq, 1)
        contrib_periods == FreqGet(o.contribution_freq, 1)
        freq == Max(compound_periods, contrib_periods)
        total_periods == IntYearsTimes(o.years, freq)
        n_contrib == IntYearsTimes(o.years, contrib_periods)
    IN  [total_periods |-> total_periods,
         period_rate |-> PowerLessOne(OnePlus(o.interest_rate), compound_periods),
         balance |-> o.init_value,
         compound_interval |-> freq \div compound_periods,
         n_contrib |-> n_contrib,
         deposit_days |-> DepositDays(o.contribution_timing, total_periods, n_contrib),
         contrib_count |-> 0,
         period |-> 1]

\* one iteration of the loop of future_value (lines 208-223)
WideBody(o, l) ==
    LET dep1 == StartDeposit(o, l)
        b1 == IF dep1 THEN WideSum(l.balance, Amount(o.contribution, FALSE))
              ELSE l.balance
        c1 == IF dep1 THEN l.contrib_count + 1 ELSE l.contrib_count
        b2 == IF Compounds(l) THEN WideSum(b1, WideInterest(o, b1, l.period_rate))
              ELSE b1
        dep2 == EndDeposit(o, l, c1)
        b3 == IF dep2 THEN WideSum(b2, Amount(o.contribution, FALSE)) ELSE b2
        c3 == IF dep2 THEN c1 + 1 ELSE c1
    IN  [l EXCEPT !.balance = b3, !.contrib_count = c3, !.period = l.period + 1]

\* for period in range(1, total_periods + 1)
RECURSIVE WideLoop(_, _)
WideLoop(o, l) == IF l.period > l.total_periods THEN l ELSE WideLoop(o, WideBody(o, l))

\* CompoundInterest(2^53 + k, j * 2^-52, years, "annually", contribution,
\* contribution_freq, contribution_timing, tax_rate): every check of __init__
\* passes
WideConstruct(k, j, years, contribution, contribution_freq, contribution_timing, tax_rate) ==
    /\ obj = NoObject
    /\ call = NoCall
    /\ call' = [name |-> "__init__",
                args |-> <<k, j, years, contribution, contribution_freq,
                           contribution_timing, tax_rate>>]
    /\ raised' = NoError
    /\ obj' = [cls |-> "calculator",
               init_value |-> k,
               interest_rate |-> Float(0, j, 0),
               years |-> years * YearDen,
               contribution |-> contribution,
               comp_freq |-> annually,
               contribution_freq |-> contribution_freq,
               contribution_timing |-> contribution_timing,
               tax_rate |-> tax_rate,
               compound_periods |-> FREQ_MAP[annually],
               contrib_periods |-> FREQ_MAP[contribution_freq]]
    /\ UNCHANGED <<pc, loc, ret, ulp>>

\* future_value(), of an object of these amounts: the excess of the result
\* over 2^53
WideFutureValue ==
    /\ obj # NoObject
    /\ pc = "idle"
    /\ call' = [name |-> "future_value", args |-> PyFloat(0)]
    /\ raised' = InflationError(PyFloat(0))
    /\ ret' = Return("future_value", WideLoop(obj, WideLocals(obj)).balance)
    /\ UNCHANGED <<obj, pc, loc, ulp>>

\* 2^53 + 0, 2, 4, 6; the rates 0, 2^-52, 2^-51 and 3 * 2^-52
WideOffsets == {0, 2, 4, 6}
WideRates == 0..3
WideYears == 1..2
WideContributions == 0..3

NextWide ==
    \/ \E k \in WideOffsets, j \in WideRates, y \in WideYears, c \in WideContributions,
          kf \in {annually, semiannually}, tm \in Timings,
          tx \in {0, RateDen \div 2, RateDen} :
            WideConstruct(k, j, y, c, kf, tm, tx)
    \/ WideFutureValue

SpecWide == Init /\ [][NextWide]_vars

(***************************************************************************)
(* Properties.  An amount of a row is in whole cents, an amount of a loop  *)
(* in 1/Cent of a cent.                                                    *)
(***************************************************************************)
Abs(x) == IF x < 0 THEN -x ELSE x

\* the last row of a frame
LastRow(data) == data[Len(data)]

\* the recorded contribution of a row of breakdown()
ContributionOf(row) == row[ContributionKey(obj.contribution_timing)]

\* ending_balance(i-1) of the rows of breakdown(), init_value for the first row
EndingBefore(data, i) ==
    IF i = 1 THEN obj.init_value ELSE data[i - 1].ending_balance * Cent

\* what row i of breakdown() misses of
\* ending_balance(i-1) + contribution(i) + net_interest(i)
Unreconciled(data, i) ==
    data[i].ending_balance * Cent
    - (EndingBefore(data, i) + (ContributionOf(data[i]) + data[i].net_interest) * Cent)

DepositBefore(amount) == IF obj.contribution_timing = start THEN amount ELSE 0

(* C2: in one step of either engine the interest is computed on the        *)
(* balance before the step plus the deposit of the step when the timing is *)
(* Start, and on the balance before the step alone when the timing is End, *)
(* the End deposit being added after the interest.                         *)
C2_InterestBetweenDeposits ==
    [][/\ (FutureValueStep /\ Compounds(loc)) =>
            LET made == IF loc'.contrib_count > loc.contrib_count
                        THEN obj.contribution ELSE 0
                base == loc.balance + DepositBefore(made)
            IN  /\ loc'.interest = FastNet(obj, Mul(base, loc.period_rate))
                /\ loc'.balance = loc.balance + made + loc'.interest
       /\ BreakdownStep =>
            LET base == loc.balance + DepositBefore(loc'.contribution_val)
            IN  /\ loc'.gross_interest =
                     IF Compounds(loc) THEN Mul(base, loc.period_rate) ELSE 0
                /\ LastRow(loc'.data).gross_interest = round2(loc'.gross_interest, ulp.gross)
                /\ loc'.balance = loc.balance + loc'.contribution_val + loc'.net_interest
       /\ (TimelineStep /\ Len(loc'.results) > Len(loc.results)) =>
            LET row == LastRow(loc'.results)
                today == loc.sorted_dates[loc.position]
                days == today - loc.last_comp_date
                base == loc.current_balance + DepositBefore(row.contribution)
            IN  /\ row.start_balance = loc.current_balance
                /\ row.gross_interest =
                     IF today \in loc.comp_dates /\ days > 0
                     THEN Mul(base, CompoundFactor(obj.daily_rate, days)) ELSE 0
                /\ row.end_balance =
                     loc.current_balance + row.contribution + row.net_interest]_vars

\* a date of the calendar engine on which a Start deposit was made and an
\* interest was credited
C2_Witness ==
    /\ pc = "timeline"
    /\ obj.contribution_timing = start
    /\ LastRow(loc.results).contribution > 0
    /\ LastRow(loc.results).gross_interest > 0

(* C3, as stated: with total_periods >= 1, future_value() with             *)
(* inflation = 0 returns the ending_balance of the last row of breakdown() *)
(* of the same object.                                                     *)
C3_FutureValueIsLastEndingBalance ==
    (ret.of = "future_value" /\ call.args.v = 0 /\ TotalPeriods(obj) >= 1) =>
        ret.value = LastRow(BreakdownData(obj, ulp)).ending_balance

\* the index of deposit i as the schedule is stated
ScheduledIndex(timing, i, total_periods, n_contrib) ==
    IF timing = start THEN (i * total_periods) \div n_contrib + 1
    ELSE ((i + 1) * total_periods) \div n_contrib

(* C4: in both loops of the period-index engine, with                      *)
(* total_periods = floor(years * freq) and n_contrib = floor(years *       *)
(* contributions per year), the deposit days are the scheduled indices,    *)
(* which are pairwise distinct and lie in 1..total_periods; the count of   *)
(* deposits never exceeds n_contrib and is the number of deposit days      *)
(* passed: one deposit on each, none skipped, n_contrib at the end.        *)
C4_Schedule ==
    pc \in {"future_value", "breakdown"} =>
        LET T == loc.total_periods
            n == loc.n_contrib
            At(i) == ScheduledIndex(obj.contribution_timing, i, T, n)
        IN  /\ T = (obj.years * Max(obj.compound_periods, obj.contrib_periods)) \div YearDen
            /\ n = (obj.years * obj.contrib_periods) \div YearDen
            /\ loc.deposit_days = {At(i) : i \in 0..(n - 1)}
            /\ \A i, j \in 0..(n - 1) : i # j => At(i) # At(j)
            /\ \A i \in 0..(n - 1) : At(i) \in 1..T
            /\ loc.contrib_count <= n
            /\ loc.contrib_count = Cardinality({d \in loc.deposit_days : d < loc.period})

\* a loop has ended with every deposit of a schedule that leaves periods
\* without one
C4_Witness ==
    /\ pc = "breakdown"
    /\ loc.period > loc.total_periods
    /\ loc.n_contrib >= 2
    /\ loc.n_contrib < loc.total_periods
    /\ loc.contrib_count = loc.n_contrib

(* C5, as stated: total_contributions() returns the sum of the             *)
(* contribution fields of the rows of breakdown() of the same object.      *)
C5_TotalContributionsIsRowSum ==
    ret.of = "total_contributions" =>
        ret.value = ColumnSum(BreakdownData(obj, ulp),
                              ContributionKey(obj.contribution_timing))

\* the three amounts of a row keep the tax identities to the cent
WithinACent(gross, tax, net) ==
    /\ 0 <= net /\ net <= gross
    /\ Abs(tax * RateDen - gross * obj.tax_rate) <= RateDen
    /\ Abs(net - (gross - tax)) <= 1
    /\ obj.tax_rate = 0 => (net = gross /\ tax = 0)

\* the three unrounded amounts of a step keep the tax identities
ExactTaxIdentity(gross, tax, net) ==
    /\ MulExact(gross, obj.tax_rate)
    /\ tax = Mul(gross, obj.tax_rate)
    /\ net = gross - tax
    /\ 0 <= net /\ net <= gross

\* the three amounts of a row keep the tax identities
TaxIdentity(gross, tax, net) ==
    /\ tax * RateDen = gross * obj.tax_rate
    /\ net = gross - tax
    /\ 0 <= net /\ net <= gross

(* C6, as stated: in every row both engines record, tax = gross_interest * *)
(* tax_rate and net_interest = gross_interest - tax with                   *)
(* 0 <= net_interest <= gross_interest, and with tax_rate = 0 the value 0  *)
(* of total_tax_paid() is the sum of the tax fields.                       *)
C6_RecordedTaxIdentity ==
    /\ ret.of = "breakdown" =>
        \A i \in 1..Len(ret.value) :
            TaxIdentity(ret.value[i].gross_interest, ret.value[i].tax_paid,
                        ret.value[i].net_interest)
    /\ ret.of = "timeline" =>
        \A i \in 1..Len(ret.value) :
            TaxIdentity(ret.value[i].gross_interest, ret.value[i].tax,
                        ret.value[i].net_interest)
    /\ (ret.of = "total_tax_paid" /\ obj.tax_rate = 0) =>
        ret.value = ColumnSum(BreakdownData(obj, ulp), "tax_paid")

(* C6, amended: the identities hold for the unrounded amounts of every     *)
(* step of both engines; the recorded amounts, rounded to cents, keep      *)
(* 0 <= net_interest <= gross_interest and both identities within one      *)
(* cent, and with tax_rate = 0 they have net_interest = gross_interest and *)
(* tax = 0, so that the 0 of total_tax_paid() is the sum of the tax fields.*)
C6_TaxIdentityBeforeRounding ==
    [][/\ BreakdownStep =>
            /\ ExactTaxIdentity(loc'.gross_interest, loc'.tax_paid, loc'.net_interest)
            /\ WithinACent(LastRow(loc'.data).gross_interest, LastRow(loc'.data).tax_paid,
                           LastRow(loc'.data).net_interest)
       /\ (TimelineStep /\ Len(loc'.results) > Len(loc.results)) =>
            ExactTaxIdentity(LastRow(loc'.results).gross_interest, LastRow(loc'.results).tax,
                             LastRow(loc'.results).net_interest)
       /\ TimelineReturn =>
            \A i \in 1..Len(ret'.value) :
                WithinACent(ret'.value[i].gross_interest, ret'.value[i].tax,
                            ret'.value[i].net_interest)
       /\ (ret'.of = "total_tax_paid" /\ obj.tax_rate = 0) =>
            /\ ret'.value = 0
            /\ ColumnSum(BreakdownData(obj, ulp), "tax_paid") = 0]_vars

\* breakdown() has returned a row with a tax that is not the tax rate times
\* the gross interest it records
C6_Witness ==
    /\ ret.of = "breakdown"
    /\ \E i \in 1..Len(ret.value) :
        /\ ret.value[i].tax_paid > 0
        /\ ret.value[i].tax_paid * RateDen # ret.value[i].gross_interest * obj.tax_rate

\* the ending balances of the rows never fall
NonDecreasing(data) ==
    \A i \in 2..Len(data) : data[i].ending_balance >= data[i - 1].ending_balance

(* C7, as stated: the ending_balance of the rows of breakdown() never      *)
(* falls from one row to the next, and that of the first row is at least   *)
(* init_value.                                                             *)
C7_NeverBelowInitValue ==
    ret.of = "breakdown" =>
        /\ NonDecreasing(ret.value)
        /\ Len(ret.value) >= 1 => ret.value[1].ending_balance * Cent >= obj.init_value

(* C7, amended: the ending_balance of the rows of breakdown() never falls  *)
(* from one row to the next, and that of the first row is at least         *)
(* init_value rounded to 2 decimals.                                       *)
C7_NeverBelowRoundedInitValue ==
    ret.of = "breakdown" =>
        /\ NonDecreasing(ret.value)
        /\ Len(ret.value) >= 1 => ret.value[1].ending_balance >= round2(obj.init_value, 0)

\* breakdown() has returned rows that rise, the first of them below an
\* init_value that is not a whole number of cents
C7_Witness ==
    /\ ret.of = "breakdown"
    /\ Len(ret.value) >= 2
    /\ ret.value[1].ending_balance * Cent < obj.init_value
    /\ ret.value[2].ending_balance > ret.value[1].ending_balance

(* C8, as stated: on an object the period-index constructor has built, no  *)
(* call of future_value(), breakdown() or a total raises.                  *)
C8_NoCallRaises ==
    (obj.cls = "calculator" /\ call.name # "__init__") => raised = NoError

\* a tag that is recognized after trimming and lower-casing
Recognized(x, tags) == IsStr(x) /\ lower(strip(x.s)) \in tags

InRange(x, lo, hi) == IsNumber(x) /\ lo <= x.v /\ x.v <= hi

\* the arguments the constructor is stated to accept, an omitted or None
\* contribution_freq standing for the compounding frequency
InDomain(a) ==
    /\ IsNumber(a.init_value) /\ a.init_value.v >= 0
    /\ InRange(a.interest_rate, 0, RateDen)
    /\ InRange(a.years, 1, 200 * YearDen)
    /\ IsNumber(a.contribution) /\ a.contribution.v >= 0
    /\ InRange(a.tax_rate, 0, RateDen)
    /\ Recognized(a.comp_freq, Frequencies)
    /\ IsNone(a.contribution_freq) \/ Recognized(a.contribution_freq, Frequencies)
    /\ Recognized(a.contribution_timing, {start, end})

\* an argument of the wrong type: no number for a number, no string for a tag
WrongType(a) ==
    \/ \E k \in {"init_value", "interest_rate", "years", "contribution", "tax_rate"} :
        ~IsNumber(a[k])
    \/ ~IsStr(a.comp_freq)
    \/ ~IsStr(a.contribution_timing)
    \/ ~IsStr(a.contribution_freq) /\ ~IsNone(a.contribution_freq)

(* C9, as stated: the period-index constructor yields an object if and     *)
(* only if every argument is in its domain; otherwise it yields none and   *)
(* raises a type error for an argument of the wrong type and a value error *)
(* for a value out of its domain or a tag that is not recognized.          *)
C9_AcceptsExactlyTheDomain ==
    call.name = "__init__" =>
        LET a == CalcDefaults(call.args)
        IN  /\ (obj # NoObject) <=> InDomain(a)
            /\ obj # NoObject => raised = NoError
            /\ obj = NoObject =>
                raised.type = IF WrongType(a) THEN "TypeError" ELSE "ValueError"

\* future_value is called
FutureValueIsCalled == pc = "idle" /\ call'.name = "future_value"

\* the call has raised error and has changed nothing else
Rejected(error) ==
    /\ raised' = error
    /\ pc' = "idle"
    /\ ret' = NoReturn
    /\ UNCHANGED <<obj, loc, ulp>>

(* C10: future_value(inflation) raises the numeric-type error for an       *)
(* inflation that is no int or float (a boolean included) and the range    *)
(* error for a number below 0 or above 1, before any stepping and leaving  *)
(* the object as it was; an inflation from 0 to 1, both included, is       *)
(* accepted and the stepping begins.                                       *)
C10_InflationValidated ==
    [][FutureValueIsCalled =>
        IF call'.args.t \notin {"int", "float"}
        THEN Rejected(Error("ValueError", "Inflation must be a numeric type (float or int)."))
        ELSE IF call'.args.v < 0 \/ call'.args.v > RateDen
        THEN Rejected(Error("ValueError", "Inflation must be a value between 0 and 1."))
        ELSE raised' = NoError /\ pc' = "future_value" /\ obj' = obj]_vars

\* future_value(True) has been rejected on an object that is as it was built
C10_Witness ==
    /\ obj.cls = "calculator"
    /\ call = [name |-> "future_value", args |-> PyBool(RateDen)]
    /\ raised = Error("ValueError", "Inflation must be a numeric type (float or int).")
    /\ pc = "idle"
    /\ ret = NoReturn

\* the periods per year of the seven rate bases, as stated
StatedPeriods ==
    (pa :> 1) @@ (ps :> 2) @@ (pq :> 4) @@ (pm :> 12) @@ (pbiw :> 26) @@
    (pw :> 52) @@ (pd :> 365)

(* C11, as stated: to_pa_rate(nominal_rate, basis) returns                 *)
(* (1 + nominal_rate)^n - 1 with n = 1, 2, 4, 12, 26, 52, 365 for the      *)
(* seven bases, which for the annual basis is nominal_rate itself, and for *)
(* any other basis it raises an error and returns nothing.                 *)
C11_RateConverter ==
    call.name = "to_pa_rate" =>
        LET r == call.args[1]
            basis == call.args[2]
        IN  IF IsStr(basis) /\ basis.s \in DOMAIN StatedPeriods
            THEN /\ raised = NoError
                 /\ ret = Return("to_pa_rate",
                                 PowerLessOne(OnePlus(r), StatedPeriods[basis.s]))
                 /\ basis.s = pa => ret.value = r
            ELSE raised # NoError /\ ret = NoReturn

\* the loop of future_value, from the locals l to its end
RECURSIVE FutureValueLoop(_, _, _)
FutureValueLoop(o, l, dev) ==
    IF l.period > l.total_periods THEN l
    ELSE FutureValueLoop(o, FutureValueBody(o, l, dev), dev)

\* what future_value(inflation) returns on the object o when nothing else
\* has been called
FutureValueAlone(o, inflation, dev) ==
    FutureValueResult(o, FutureValueLoop(o, FutureValueLocals(o, inflation), dev))

\* the column a total of the period-index engine sums
TotalColumn ==
    [total_gross_interest_earned |-> "gross_interest",
     total_net_interest_earned |-> "net_interest",
     total_tax_paid |-> "tax_paid"]

\* the column a total of the calendar-date engine sums
CoreTotalColumn ==
    ("core.total_contributions" :> "contribution") @@
    ("core.total_gross_interest" :> "gross_interest") @@
    ("core.total_tax_paid" :> "tax") @@
    ("core.total_net_interest" :> "net_interest")

GrowthFactor(o) == RateDen + Mul(o.interest_rate, RateDen - o.tax_rate)

\* init_value * g^Y + contribution * (g^Y - 1) / (g - 1), times g for the
\* deposits at Start timing, for g = a / 2^b in lowest terms:
\* (g^Y - 1) / (g - 1) is (a^Y - 2^(b Y)) / (a - 2^b) / 2^(b (Y - 1)), and the
\* Y it tends to for g = 1
ClosedForm(o) ==
    LET Y == o.years \div YearDen
        g == GrowthFactor(o)
        b == RateCost(g)
        a == g \div 2^TwoAdic(g)
        q == IF a = 2^b THEN Y ELSE (a^Y - 2^(b * Y)) \div (a - 2^b)
    IN  (o.init_value \div 2^(b * Y)) * a^Y
        + (IF o.contribution_timing = start
           THEN (o.contribution \div 2^(b * Y)) * a * q
           ELSE (o.contribution \div 2^(b * (Y - 1))) * q)

\* annual compounding and annual contributions over a whole number of years
AnnualRun(o) ==
    /\ o.cls = "calculator"
    /\ o.comp_freq = annually
    /\ o.contribution_freq = annually
    /\ o.years % YearDen = 0

(* C13: with annual compounding and annual contributions over a whole      *)
(* number Y of years and g = 1 + interest_rate * (1 - tax_rate),           *)
(* future_value() returns init_value * g^Y + contribution * (g^Y - 1) /    *)
(* (g - 1) for End timing, and the same with the contributions times g for *)
(* Start timing, rounded to 2 decimals: a cent amount nearest to it.       *)
C13_ClosedFormFutureValue ==
    (ret.of = "future_value" /\ call.args.v = 0 /\ AnnualRun(obj)) =>
        /\ MulExact(obj.interest_rate, RateDen - obj.tax_rate)
        /\ 2 * Abs(ret.value * Cent - ClosedForm(obj)) <= Cent

\* future_value() has returned after 5 years of taxed interest and of
\* deposits at Start timing
C13_Witness ==
    /\ ret.of = "future_value"
    /\ call.args.v = 0
    /\ AnnualRun(obj)
    /\ obj.years = 5 * YearDen
    /\ obj.contribution_timing = start
    /\ obj.contribution > 0
    /\ obj.interest_rate > 0
    /\ obj.tax_rate > 0
    /\ ret.value * Cent > obj.init_value + 5 * obj.contribution

\* floor(years * the larger of the two occurrences per year)
StatedPeriodCount(o) ==
    (o.years * Max(FREQ_MAP[o.comp_freq], FREQ_MAP[o.contribution_freq])) \div YearDen

(* C14: breakdown() returns floor(years * max(compounding occurrences per  *)
(* year, contribution occurrences per year)) rows, the period of the i-th  *)
(* row being i, so that the periods are 1, 2, ..., total_periods with no   *)
(* gap and no repetition, and a fraction of a period left at the end has   *)
(* no row.                                                                 *)
C14_OneRowPerPeriod ==
    ret.of = "breakdown" =>
        /\ Len(ret.value) = StatedPeriodCount(obj)
        /\ \A i \in 1..Len(ret.value) : ret.value[i].period = i

\* breakdown() has returned the rows of a run whose years end within a
\* period
C14_Witness ==
    /\ ret.of = "breakdown"
    /\ Len(ret.value) >= 2
    /\ (obj.years * Max(obj.compound_periods, obj.contrib_periods)) % YearDen # 0

(* C15: an object the period-index constructor builds without a           *)
(* contribution_freq, or with None for it, has the trimmed and lower-cased *)
(* comp_freq as its contribution_freq and contrib_periods =                *)
(* compound_periods; built without a contribution it has contribution 0.0, *)
(* without a contribution_timing 'end', without a tax_rate 0.0.            *)
C15_ConstructorDefaults ==
    (call.name = "__init__" /\ obj # NoObject) =>
        LET a == call.args
        IN  /\ a.contribution_freq \in {Omitted, PyNone} =>
                /\ obj.contribution_freq = lower(strip(a.comp_freq.s))
                /\ obj.contribution_freq = obj.comp_freq
                /\ obj.contrib_periods = obj.compound_periods
                /\ obj.contrib_periods = FREQ_MAP[obj.comp_freq]
            /\ a.contribution = Omitted => obj.contribution = 0
            /\ a.contribution_timing = Omitted => obj.contribution_timing = end
            /\ a.tax_rate = Omitted => obj.tax_rate = 0

\* an object has been built with a comp_freq to trim and lower-case and no
\* contribution_freq
C15_Witness ==
    /\ call.name = "__init__"
    /\ obj # NoObject
    /\ call.args.contribution_freq = Omitted
    /\ call.args.comp_freq.s # obj.comp_freq
    /\ obj.contribution_freq = monthly
    /\ obj.contrib_periods = 12

(* C16, as stated: in a run of an object the period-index constructor has  *)
(* built, the stepping frequency, the larger of the two occurrences per    *)
(* year, is compound_interval times the compounding occurrences per year:  *)
(* the integer division freq // compound_periods leaves no remainder.      *)
C16_CompoundingDividesFrequency ==
    pc \in {"future_value", "breakdown"} =>
        /\ loc.compound_interval * obj.compound_periods
             = Max(obj.compound_periods, obj.contrib_periods)
        /\ Max(obj.compound_periods, obj.contrib_periods) % obj.compound_periods = 0

\* row i of breakdown() has a contribution applied at Start timing
StartApplied(data, i) ==
    obj.contribution_timing = start /\ ContributionOf(data[i]) > 0

RowDay(row) ==
    Ordinal(Number(SubSeq(row.date, 7, 10)), Number(SubSeq(row.date, 4, 5)),
            Number(SubSeq(row.date, 1, 2)))

\* the dates of the rows are in strictly ascending order, from the start date
AscendingFrom(rows, first_day) ==
    /\ Len(rows) >= 1
    /\ RowDay(rows[1]) = first_day
    /\ \A i \in 2..Len(rows) : RowDay(rows[i - 1]) < RowDay(rows[i])

(* C18: the rows of timeline() are in strictly ascending date order; the   *)
(* first is the row of start_date, with start_balance = init_value, no     *)
(* interest and end_balance = init_value + its contribution; in every      *)
(* later row, before the display rounding, start_balance is the            *)
(* end_balance of the row before and end_balance = start_balance +         *)
(* contribution + net_interest.                                            *)
C18_TimelineRows ==
    /\ pc = "timeline" =>
        /\ AscendingFrom(loc.results, obj.start_date)
        /\ loc.results[1].start_balance = obj.init_value
        /\ loc.results[1].gross_interest = 0
        /\ loc.results[1].tax = 0
        /\ loc.results[1].net_interest = 0
        /\ loc.results[1].end_balance = obj.init_value + loc.results[1].contribution
        /\ \A i \in 2..Len(loc.results) :
            /\ loc.results[i].start_balance = loc.results[i - 1].end_balance
            /\ loc.results[i].end_balance
                 = loc.results[i].start_balance + loc.results[i].contribution
                   + loc.results[i].net_interest
    /\ ret.of = "timeline" =>
        /\ AscendingFrom(ret.value, obj.start_date)
        /\ ret.value[1].date = strftime(obj.start_date)

\* timeline() has returned three rows or more, with a contribution and an
\* interest in a row after the first
C18_Witness ==
    /\ ret.of = "timeline"
    /\ Len(ret.value) >= 3
    /\ \E i \in 2..Len(ret.value) :
        ret.value[i].contribution > 0 /\ ret.value[i].net_interest > 0

\* a number outside lo..hi
Outside(x, lo, hi) == IsNumber(x) /\ (x.v < lo \/ x.v > hi)

\* a tag that is given and is not one of tags
Unrecognized(x, tags) == ~IsNone(x) /\ ~(IsStr(x) /\ x.s \in tags)

\* the arguments the calendar-date constructor is stated to reject
OutsideCoreDomain(a) ==
    \/ IsNumber(a.init_value) /\ a.init_value.v < 0
    \/ Outside(a.interest_rate, 0, RateDen)
    \/ Outside(a.years, 1, 200 * YearDen)
    \/ IsNumber(a.contribution) /\ a.contribution.v < 0
    \/ Outside(a.tax_rate, 0, RateDen)
    \/ IsNone(a.rate_basis) \/ Unrecognized(a.rate_basis, {pa, ps, pq, pm, pbiw, pw, pd})
    \/ Unrecognized(a.comp_freq, Frequencies)
    \/ Unrecognized(a.contribution_freq, Frequencies)
    \/ IsNone(a.contribution_timing) \/ Unrecognized(a.contribution_timing, {start, end})

(* C19, as stated: the calendar-date constructor raises and builds no      *)
(* object when init_value < 0, interest_rate < 0 or > 1, years <= 0 or     *)
(* > 200, contribution < 0, tax_rate is outside [0, 1], or rate_basis,     *)
(* comp_freq, contribution_freq or contribution_timing is no recognized    *)
(* tag.                                                                    *)
C19_CoreRejectsOutsideDomain ==
    (call.name = "__init__" /\ OutsideCoreDomain(CoreDefaults(call.args))) =>
        obj = NoObject /\ raised # NoError

(* C20, as stated: a calendar-date object built with contribution > 0 and  *)
(* no contribution_freq has its contributions scheduled at the compounding *)
(* frequency: its timeline has contribution dates, those of the            *)
(* compounding frequency, and a positive total of contributions.           *)
C20_ContributionsAtCompoundingFrequency ==
    (obj.cls = "core" /\ obj.contribution > 0 /\ IsNone(obj.contribution_freq)) =>
        /\ pc = "timeline" =>
            /\ loc.contr_dates # {}
            /\ loc.contr_dates =
                 date_range(loc.start_ts, loc.end_ts,
                            CONTRIB_FREQ_MAP[obj.comp_freq][obj.contribution_timing])
        /\ ret.of = "timeline" => ColumnSum(ret.value, "contribution") > 0
        /\ ret.of = "core.total_contributions" => ret.value > 0

\* the result of future_value() of the object o of amounts from 2^53
WideAlone(o) == WideLoop(o, WideLocals(o)).balance

(* C21, as stated: of two accepted configurations that differ only in      *)
(* contribution_timing, future_value() of the one with Start timing is at  *)
(* least future_value() of the one with End timing; the last deposit index *)
(* of End timing is total_periods and the first of Start timing is 1.      *)
C21_StartNotBelowEnd ==
    (obj # NoObject /\ ret.of = "future_value") =>
        /\ obj.contribution_timing = start =>
              ret.value >= WideAlone([obj EXCEPT !.contribution_timing = end])
        /\ obj.contribution_timing = end =>
              WideAlone([obj EXCEPT !.contribution_timing = start]) >= ret.value
        /\ LET l == WideLocals(obj)
           IN  l.n_contrib > 0 =>
                 IF obj.contribution_timing = end
                 THEN SetMax(l.deposit_days) = l.total_periods
                 ELSE SetMin(l.deposit_days) = 1

(***************************************************************************)
(* C22.  The periods of a run in which interest is credited are those with *)
(* period % compound_interval = 0 (Compounds).  Over a whole number Y of   *)
(* years their number among 1..total_periods is Y * compound_periods, for  *)
(* every pair of frequencies the constructor accepts: the period rate      *)
(* (1 + interest_rate) ** (1 / compound_periods) - 1 is applied            *)
(* compound_periods times per year.                                        *)
(***************************************************************************)
\* the periods of the loops of object o in which interest is credited
CompoundingPeriods(o) ==
    LET freq == Max(o.compound_periods, o.contrib_periods)
        compound_interval == freq \div o.compound_periods
    IN  {period \in 1..IntYearsTimes(o.years, freq) : period % compound_interval = 0}

C22_CompoundingsPerYear ==
    (obj # NoObject /\ obj.cls = "calculator" /\ obj.years % YearDen = 0) =>
        Cardinality(CompoundingPeriods(obj))
            = (obj.years \div YearDen) * obj.compound_periods

\* the amounts of a row of the timeline are those of its date: on a
\* compounding date the gross interest of the balance, with the Start
\* contribution of the date, over the days since the compounding date before
\* (or the start date), and no interest on any other date
AccruedSinceCompounding(o, l, row) ==
    LET d == RowDay(row)
        base_balance == row.start_balance
                        + (IF o.contribution_timing = start THEN row.contribution ELSE 0)
    IN  IF d \in l.comp_dates
        THEN row.gross_interest
               = Mul(base_balance,
                     CompoundFactor(o.daily_rate, d - PreviousCompounding(l, d)))
        ELSE row.gross_interest = 0 /\ row.tax = 0 /\ row.net_interest = 0

\* the days the compoundings of the first n rows have accrued interest for
RECURSIVE DaysAccrued(_, _)
DaysAccrued(l, n) ==
    IF n <= 1 THEN 0
    ELSE DaysAccrued(l, n - 1)
         + (IF RowDay(l.results[n]) \in l.comp_dates
            THEN RowDay(l.results[n]) - PreviousCompounding(l, RowDay(l.results[n]))
            ELSE 0)

=============================================================================
